---- MODULE Spec2Model ----
(***************************************************************************)
(* OverBoard: the append-only metrics log (overboard_logger.Logger), the   *)
(* tailing reader (ExperimentReader) and its consumer (Experiment).        *)
(*                                                                         *)
(* A file is a sequence of one-character strings.  The writer's stream is  *)
(* buffered: file.write appends to buf, file.flush / file.close move buf   *)
(* to disk, and the buffer may write out any part of itself before that.   *)
(* The reader only ever sees disk.                                         *)
(***************************************************************************)
EXTENDS Integers, Sequences, FiniteSets, TLC

\* ---------------------------------------------------------------- bounds
MaxAppends == 2     \* append calls per session
MaxRetries == 3     \* append calls of a session that retries failed calls
MaxPolls   == 3     \* read_lines invocations per reader
MaxCloses  == 2     \* _finish_write calls per session
MaxClock   == 1     \* distinct clock readings
MaxPoints  == 2     \* entries of one points mapping
MaxRuns    == 3     \* stats.csv files that may appear under the base folder
MaxWalks   == 2     \* walks of the base folder by the crawler
MaxLines   == 3     \* lines of a stats.csv that another program wrote
MaxVisCalls   == 3  \* visualize calls of a run logged with overboard_logger
MaxIndexCalls == 10 \* visualize calls of a run logged with the overboard package
MaxClosedCalls == 1 \* visualize calls made after the session is closed
MaxUpdates    == 2  \* update_average calls per session
MaxEdits      == 3  \* edits of the notes of a run
MaxSelects    == 2  \* select_folder calls on the loader
MaxSessions   == 2  \* sessions opened with unique=True on one directory
MaxTicks      == 2  \* distinct readings of the clock by those sessions

\* ------------------------------------------------------- optional values
\* Python's None / a present value
None      == <<>>
Some(x)   == <<x>>
IsNone(o) == o = <<>>
Get(o)    == o[1]

\* ------------------------------------------------------------ characters
NL      == "\n"
Comma   == ","
Digits  == <<"0", "1", "2", "3", "4", "5", "6", "7", "8", "9">>
Digit(n) == Digits[n + 1]
IsDigit(c) == \E i \in 1..10 : Digits[i] = c
Whitespace == {" ", "\n", "\r", "\t"}

RECURSIVE Concat(_)
\* ''.join(parts)
Concat(parts) ==
  IF parts = <<>> THEN <<>> ELSE Head(parts) \o Concat(Tail(parts))

RECURSIVE Join(_, _)
\* sep.join(parts)
Join(sep, parts) ==
  IF parts = <<>> THEN <<>>
  ELSE IF Len(parts) = 1 THEN parts[1]
  ELSE parts[1] \o sep \o Join(sep, Tail(parts))

RECURSIVE LStrip(_)
LStrip(s) ==
  IF s # <<>> /\ Head(s) \in Whitespace THEN LStrip(Tail(s)) ELSE s

RECURSIVE RStrip(_)
RStrip(s) ==
  IF s # <<>> /\ s[Len(s)] \in Whitespace
  THEN RStrip(SubSeq(s, 1, Len(s) - 1)) ELSE s

\* str.strip()
Strip(s) == RStrip(LStrip(s))

RECURSIVE SplitAt(_, _, _)
\* the pieces of s between the positions of cuts (ascending); from is the
\* first index of the current piece
SplitAt(s, cuts, from) ==
  IF cuts = <<>> THEN << SubSeq(s, from, Len(s)) >>
  ELSE << SubSeq(s, from, Head(cuts) - 1) >> \o SplitAt(s, Tail(cuts), Head(cuts) + 1)

RECURSIVE Ascending(_, _)
\* the members of the set S of positions that are >= from, in ascending order
Ascending(S, from) ==
  LET above == {i \in S : i >= from}
  IN IF above = {} THEN <<>>
     ELSE LET m == CHOOSE i \in above : \A j \in above : i <= j
          IN <<m>> \o Ascending(S, m + 1)

\* str.split(',')
SplitComma(s) ==
  SplitAt(s, Ascending({i \in 1..Len(s) : s[i] = Comma}, 1), 1)

\* re.split(r'(?<!\\),', s): commas not preceded by a backslash
SplitUnescaped(s) ==
  SplitAt(s, Ascending({i \in 1..Len(s) :
                          s[i] = Comma /\ (i = 1 \/ s[i - 1] # "\\")}, 1), 1)

IsPrefix(s, t) == Len(s) <= Len(t) /\ SubSeq(t, 1, Len(s)) = s

\* ---------------------------------------------------------------- names
\* Column names a caller may pass; "c,d" is a name with a comma in it.
\* A name is itself a string; Chars gives its characters.
Names == {"a", "b", "c,d"}
Chars(name) ==
  CASE name = "a"   -> <<"a">>
    [] name = "b"   -> <<"b">>
    [] name = "c,d" -> <<"c", ",", "d">>
    [] name = "time" -> <<"t", "i", "m", "e">>
    [] name = "iteration" -> <<"i", "t", "e", "r", "a", "t", "i", "o", "n">>

\* isinstance(name, str) and not ',' in name
ValidName(name) == \A i \in 1..Len(Chars(name)) : Chars(name)[i] # Comma

\* values a caller may log: native numbers
Values == {1}
\* str(value)
Str(v) == <<Digit(v)>>
NaN == <<"N", "a", "N">>

\* get_timestamp(): the rendering of the clock reading, a fixed-width string
\* far longer than two characters
get_timestamp(t) == <<"T", "s", Digit(t)>>
IsTimestamp(s) == Len(s) = 3 /\ s[1] = "T" /\ s[2] = "s" /\ IsDigit(s[3])

\* A points mapping is a sequence of [name, value] entries with distinct
\* names, in the insertion order of the dict.
PointsOfLen(n) ==
  {p \in [1..n -> [name : Names, value : Values]] :
     \A i, j \in 1..n : i # j => p[i].name # p[j].name}
AllPoints == UNION {PointsOfLen(n) : n \in 0..MaxPoints}
Keys(points) == [i \in 1..Len(points) |-> points[i].name]
InSeq(x, s) == \E i \in 1..Len(s) : s[i] = x
Lookup(points, name) ==
  points[CHOOSE i \in 1..Len(points) : points[i].name = name].value

\* ------------------------------------------------------------ file lines
\* The pieces of a file between its line breaks; the last piece is what
\* follows the last line break (empty when the file ends in one).
Pieces(content) ==
  SplitAt(content, Ascending({i \in 1..Len(content) : content[i] = NL}, 1), 1)
\* the terminated lines of a file, without their terminators
CompleteLines(content) ==
  LET ps == Pieces(content) IN SubSeq(ps, 1, Len(ps) - 1)
\* the unterminated tail of a file
PartialLine(content) ==
  LET ps == Pieces(content) IN ps[Len(ps)]
\* number of comma-separated fields of a line
NumFields(line) == Len(SplitComma(line))

VARIABLES
  \* ---- Logger (src/logger/overboard_logger/logger.py)
  arg_stat_names, \* the stat_names argument of the constructor (None if omitted)
  stat_names,     \* self.stat_names
  wrote_header,   \* self.wrote_header
  buf,            \* self.file: characters written and not yet flushed
  disk,           \* stats.csv as it is on disk
  closed,         \* self.file.closed
  wpc,            \* "idle", "flush" (inside append, before flush), "crashed"
  now,            \* the clock read by get_timestamp
  \* ---- history of the session
  ncalls,         \* append calls made
  last_call,      \* the latest append call: argument, error raised, characters
                  \* written, and the error raised by the call before it
  written,        \* all characters passed to file.write by append
  returned,       \* append calls that returned normally
  returned_len,   \* how much of written had been written when the latest did
  how_closed,     \* the _finish_write calls made: by __exit__ or by __del__
  diskAtClose,    \* stats.csv just before the first _finish_write
  \* ---- ExperimentReader (src/overboard/experiments.py)
  force_reopen_files, \* selects read_data_slow
  rpc,            \* "init", "sleep" (between polls), "done", "error"
  file_pos,       \* position of the open file handle (file.tell())
  line_start,     \* position to resume from (None before the first read)
  old_size,       \* read_data_slow: last file size seen
  num_columns,    \* self.num_columns
  num_rows,       \* self.num_rows
  queue,          \* signals emitted and not yet handled by the main thread
  \* ---- Experiment (the consumer, on the main thread)
  metrics,        \* self.metrics
  data,           \* self.data
  exp_done,       \* self.done
  handed,         \* history: the signals the Experiment has handled, by type
  \* ---- history of the reader
  polls,          \* poll cycles made
  seen,           \* length of stats.csv at the latest read_lines
  emitted,        \* all rows emitted with data_ready, in order
  done_emitted,   \* done signals emitted
  logged,         \* errors that start_reading caught and logged
  escaped,        \* exceptions that left start_reading uncaught
  \* ---- the metadata file of the run (Logger.__init__)
  save_timestamp, \* the save_timestamp argument of the constructor
  arg_meta,       \* the meta argument of the constructor, as a dict
  meta_json,      \* meta.json on disk: None while there is no such file
  meta_torn,      \* meta.json holds only a part of the text of meta_json
  meta_partial,   \* meta.json.partial: None, or Some of its object and whether
                  \* only a part of its text is written
  exp_meta,       \* Experiment.meta in the observer
  epc,            \* the observer's position in Window.on_table_edit
  meta_before,    \* history: meta.json when the latest edit began
  edits,          \* history: number of edits saved or begun
  \* ---- ExperimentsCrawler and Experiments (src/overboard/experiments.py)
  present,        \* the stats.csv files under the base folder
  cpc,            \* "walk" (inside the for loop) or "sleep"
  cursor,         \* how far the walk has come (files are numbered in walk order)
  known_files,    \* known_files
  new_files,      \* new_files
  ready_queue,    \* experiments_ready signals not yet handled by the main thread
  exps,           \* Experiments.exps: the names of its entries
  \* ---- history of the crawler
  walks,          \* walks completed
  at_walk_start,  \* the files present when the latest walk began
  reported,       \* every path passed to experiments_ready.emit, in order
  started,        \* every path an Experiment was created for, in order
  \* ---- a second ExperimentReader
  twin,           \* its fields and history, as a record
  twin_disk,      \* the stats.csv it reads: None for that of the first reader
  \* ---- Logger.visualize
  index_layout,   \* TRUE for the Logger of the overboard package
  vis_functions,  \* name -> None or Some of the function and source bound
  vis_file_sizes, \* name -> None or Some of the size recorded at the last call
  vis_counts,     \* the dict of call counts, in insertion order
  vis_padding,    \* number of spaces written last after the index lines
  vis_index,      \* the index file 'visualizations' of the overboard package
  vis_dir,        \* the folder 'visualizations' exists
  vis_files,      \* name -> None or Some of the payload file name.pth
  vis_sources,    \* name -> None or Some of the text of the copy name.py
  vpc,            \* "idle", or "saving" while save() writes a payload
  script,         \* the text of the caller's script
  vis_ncalls,     \* history: number of visualize calls made
  vis_call,       \* history: the latest call, its result and the size of the
                  \* polled file before it
  \* ---- VisualizationsLoader
  loader,         \* its fields, as a record
  selects,        \* history: number of select_folder calls
  last_tick,      \* history: the entry of the latest poll and what became of it
  ready_count,    \* history: number of visualization_ready signals emitted
  vis_logged,     \* history: number of logging.exception calls
  source_reads,   \* history: per name, the readtext calls for its source
                  \* since the latest select_folder
  delivered,      \* history: per name, the payload of the latest
                  \* visualization_ready since the latest select_folder
  \* ---- Logger.update_average
  avg,            \* avg_accum and avg_count: entries of name, sum and count,
                  \* in insertion order
  nupdates,       \* history: number of update_average calls
  last_avg,       \* history: the latest append() without points: the
                  \* accumulator it found, the error raised, the characters
  \* ---- Logger.__init__ with resume=True, and with unique=True
  resume,         \* the session that resumes the log: how far its constructor
                  \* got, the error it raised, its file and column list
  uclock,         \* the clock that the sessions opened with unique=True read
  dirs,           \* the run directories under the base directory, each with
                  \* the session whose makedirs call created it
  sessions,       \* per session opened with unique=True: its position in
                  \* the constructor, its time stamp and its directory
  \* ---- Visualizations, the coordinator on the main thread
  sel_queue,      \* select_folder signals on their way to the loader thread
  vis_ready,      \* visualization_ready signals on their way to the main
                  \* thread, each with the folder it was loaded from
  modules,        \* self.modules: per name, the source of the cached module
  panels,         \* self.panels: per name, the plots shown
  selected,       \* history: the folder of the latest select call
  \* ---- ExperimentReader.start_reading, the part before the metrics file
  spc,            \* "start", "data" (read_data_fast or read_data_slow is
                  \* called), "raised" (an exception left the slot)
  meta_emitted    \* history: the meta_ready signals emitted

writerVars == <<arg_stat_names, stat_names, wrote_header, buf, disk, closed,
                wpc, now, ncalls, last_call, written, returned, returned_len,
                how_closed, diskAtClose>>

readerVars == <<force_reopen_files, rpc, file_pos, line_start, old_size,
                num_columns, num_rows, queue, polls, seen, emitted,
                done_emitted, logged, escaped>>
expVars == <<metrics, data, exp_done, handed>>
metaVars == <<save_timestamp, arg_meta, meta_json, meta_torn, meta_partial,
              exp_meta, epc, meta_before, edits>>

crawlVars == <<present, cpc, cursor, known_files, new_files, ready_queue,
               exps, walks, at_walk_start, reported, started>>

\* what the Logger, the reader and the consumer of one run leave alone
twinVars == <<twin, twin_disk>>
visWriterVars == <<index_layout, vis_functions, vis_file_sizes, vis_counts,
                   vis_padding, vis_index, vis_dir, vis_files, vis_sources, vpc>>
visHistVars == <<vis_ncalls, vis_call>>
loaderVars ==
  <<loader, selects, last_tick, ready_count, vis_logged, source_reads,
    delivered>>
panelVars == <<sel_queue, vis_ready, modules, panels, selected>>
visVars == <<visWriterVars, visHistVars, script, loaderVars, panelVars>>
avgVars == <<avg, nupdates, last_avg>>
openVars == <<resume, uclock, dirs, sessions>>
startVars == <<spc, meta_emitted>>
sessionVars == <<avgVars, openVars, startVars>>
otherVars == <<metaVars, crawlVars, twinVars, visVars, sessionVars>>

vars == <<writerVars, readerVars, expVars, otherVars>>

\* the stat_names arguments tried
ArgStatNames == {None, Some(<<"a", "b">>)}

\* --------------------------------------------------------------- Logger
\* Logger.__init__ without resume: stats.csv is created empty; the
\* stat_names argument is validated and then not stored.
\* lines 77-79: nothing accumulated
NoAverageCall == [acc |-> <<>>, err |-> "no_call", out |-> <<>>]
AverageInit == avg = <<>> /\ nupdates = 0 /\ last_avg = NoAverageCall

\* no session has been opened with resume=True or unique=True
NoResume == [pc |-> "none", err |-> "none", file |-> "none",
             stat_names |-> <<>>, buf |-> <<>>, before |-> <<>>]
Sessions == 1..MaxSessions
NotOpened == [pc |-> "new", timestamp |-> 0, directory |-> <<>>,
              retried |-> FALSE]
OpenInit ==
  /\ resume = NoResume
  /\ uclock = 0
  /\ dirs = {}
  /\ sessions = [s \in Sessions |-> NotOpened]
  /\ spc = "start"
  /\ meta_emitted = <<>>

LoggerInit ==
  /\ arg_stat_names \in ArgStatNames
  /\ stat_names = None
  /\ wrote_header = FALSE
  /\ buf = <<>>
  /\ disk = <<>>
  /\ closed = FALSE
  /\ wpc = "idle"
  /\ now = 0
  /\ ncalls = 0
  /\ last_call = [points |-> <<>>, err |-> "no_call", out |-> <<>>,
                  prev_err |-> "no_call"]
  /\ written = <<>>
  /\ returned = 0
  /\ returned_len = 0
  /\ how_closed = <<>>
  /\ diskAtClose = <<>>
  /\ AverageInit
  /\ OpenInit

\* A dict is a set of [key, value] entries; values are kept as json.dump
\* renders them.  The meta arguments tried: none, and one hyper-parameter.
MetaArgs == {{}, {[key |-> "lr", value |-> <<"1">>]}}

\* self.meta after lines 82-117: the caller's entries and, if asked for, the
\* time stamp of the construction
MetaDict(user, withTimestamp, t) ==
  user \cup (IF withTimestamp
             THEN {[key |-> "timestamp", value |-> get_timestamp(t)]} ELSE {})

\* lines 120-122: meta.json is written, and closed, only if self.meta has
\* an entry
WriteMeta(meta) == IF meta # {} THEN Some(meta) ELSE None

\* Logger.__init__, the part about the metadata
MetaInit ==
  /\ save_timestamp \in BOOLEAN
  /\ arg_meta \in MetaArgs
  /\ meta_json = WriteMeta(MetaDict(arg_meta, save_timestamp, 0))
  /\ meta_torn = FALSE
  /\ meta_partial = None
  /\ exp_meta = {}
  /\ epc = "idle"
  /\ meta_before = None
  /\ edits = 0

\* a session opened with the default arguments for the metadata
DefaultMeta == MetaInit /\ save_timestamp /\ arg_meta = {}

\* 'time,' + ','.join(self.stat_names) + '\n'
HeaderLine(names) ==
  Chars("time") \o <<Comma>> \o
  Join(<<Comma>>, [i \in 1..Len(names) |-> Chars(names[i])]) \o <<NL>>

\* the timestamp, then ',' and the value or 'NaN' for every column, then '\n'
RowLine(names, points, t) ==
  get_timestamp(t) \o
  Concat([i \in 1..Len(names) |->
            <<Comma>> \o (IF InSeq(names[i], Keys(points))
                          THEN Str(Lookup(points, names[i])) ELSE NaN)]) \o
  <<NL>>

\* an append that starts the row before it validates the names
AppendCall_validates_late(points, names0, header0, isClosed, t) ==
  LET names1 == IF IsNone(names0) THEN Some(Keys(points)) ELSE names0
      ok(e)  == [err |-> e, stat_names |-> names1, wrote_header |-> header0,
                 out |-> <<>>]
  IN IF IsNone(names0) /\ ~(\A i \in 1..Len(points) : ValidName(points[i].name))
       THEN ok("bad_name")
     ELSE IF isClosed
       THEN ok("closed_file")
     ELSE IF ~IsNone(names0) /\ (\E i \in 1..Len(points) :
                                   ~InSeq(points[i].name, Get(names0)))
       THEN [err |-> "unknown_stat", stat_names |-> names1, wrote_header |-> TRUE,
             out |-> (IF header0 THEN <<>> ELSE HeaderLine(Get(names1)))
                     \o get_timestamp(t)]
     ELSE [err |-> "none", stat_names |-> names1, wrote_header |-> TRUE,
           out |-> (IF header0 THEN <<>> ELSE HeaderLine(Get(names1)))
                   \o RowLine(Get(names1), points, t)]

\* Logger.append up to (not including) file.flush(): the error raised, the
\* new self.stat_names and self.wrote_header, and the characters written.
AppendCall(points, names0, header0, isClosed, t) ==
  LET names1 == IF IsNone(names0) THEN Some(Keys(points)) ELSE names0
      ok(e)  == [err |-> e, stat_names |-> names1, wrote_header |-> header0,
                 out |-> <<>>]
  IN IF IsNone(names0) /\ ~(\A i \in 1..Len(points) : ValidName(points[i].name))
       THEN ok("bad_name")
     ELSE IF ~IsNone(names0) /\ (\E i \in 1..Len(points) :
                                   ~InSeq(points[i].name, Get(names0)))
       THEN ok("unknown_stat")
     ELSE IF isClosed
       THEN ok("closed_file")
     ELSE [err |-> "none", stat_names |-> names1, wrote_header |-> TRUE,
           out |-> (IF header0 THEN <<>> ELSE HeaderLine(Get(names1)))
                   \o RowLine(Get(names1), points, t)]

\* an append that returns without flushing
Flush_omitted(d, b) == [disk |-> d, buf |-> b]

\* file.flush(): everything buffered reaches the file
Flush(d, b) == [disk |-> d \o b, buf |-> <<>>]

\* Logger.append(points), lines 139-176, for a points argument of pointsSet
\* and at most maxCalls calls
append_with(pointsSet, maxCalls) ==
  /\ wpc = "idle"
  /\ ncalls < maxCalls
  /\ \E points \in pointsSet, t \in now..(IF now < MaxClock THEN now + 1 ELSE now) :
       LET r == AppendCall(points, stat_names, wrote_header, closed, t)
       IN /\ stat_names' = r.stat_names
          /\ wrote_header' = r.wrote_header
          /\ buf' = buf \o r.out
          /\ last_call' = [points |-> points, err |-> r.err, out |-> r.out,
                            prev_err |-> last_call.err]
          /\ written' = written \o r.out
          /\ wpc' = IF r.err = "none" THEN "flush" ELSE "idle"
          /\ now' = IF r.err = "none" THEN t ELSE now
  /\ ncalls' = ncalls + 1
  /\ UNCHANGED <<arg_stat_names, disk, closed, returned, returned_len,
                 how_closed, diskAtClose>>
  /\ UNCHANGED <<readerVars, expVars, otherVars>>

\* the append calls of a session
append == append_with(AllPoints, MaxAppends)

\* the append calls of the run that the reader tails: one column at most
TailPoints == {p \in AllPoints : \A i \in 1..Len(p) : p[i].name = "a"}
tail_append == append_with(TailPoints, MaxAppends)

\* the append calls of a caller that names one valid column at a time, or none
RetryPoints ==
  {p \in AllPoints : Len(p) <= 1 /\ \A i \in 1..Len(p) : p[i].name \in {"a", "b"}}
retry_append == append_with(RetryPoints, MaxRetries)

\* the stream writes out part of its buffer before flush is called
spill ==
  /\ wpc = "flush"
  /\ \E k \in 1..Len(buf) :
       /\ disk' = disk \o SubSeq(buf, 1, k)
       /\ buf' = SubSeq(buf, k + 1, Len(buf))
  /\ UNCHANGED <<arg_stat_names, stat_names, wrote_header, closed, wpc, now,
                 ncalls, last_call, written, returned, returned_len,
                 how_closed, diskAtClose>>
  /\ UNCHANGED <<readerVars, expVars, otherVars>>

\* Logger.append, line 177: file.flush(), then the call returns
append_flush ==
  /\ wpc = "flush"
  /\ LET f == Flush(disk, buf)
     IN disk' = f.disk /\ buf' = f.buf
  /\ wpc' = "idle"
  /\ returned' = returned + 1
  /\ returned_len' = Len(written)
  /\ UNCHANGED <<arg_stat_names, stat_names, wrote_header, closed, now,
                 ncalls, last_call, written, how_closed, diskAtClose>>
  /\ UNCHANGED <<readerVars, expVars, otherVars>>

\* the writer process dies: what is still buffered is lost
crash ==
  /\ wpc \in {"idle", "flush"}
  /\ ~closed
  /\ wpc' = "crashed"
  /\ buf' = <<>>
  /\ UNCHANGED <<arg_stat_names, stat_names, wrote_header, disk, closed, now,
                 ncalls, last_call, written, returned, returned_len,
                 how_closed, diskAtClose>>
  /\ UNCHANGED <<readerVars, expVars, otherVars>>

\* a _finish_write that does not look at file.closed
FinishWrite_unguarded(d, b, isClosed) ==
  [disk |-> d \o b \o <<NL>>, closed |-> TRUE]

\* Logger._finish_write: the marker is written only to a stream still open
FinishWrite(d, b, isClosed) ==
  IF ~isClosed THEN [disk |-> d \o b \o <<NL>>, closed |-> TRUE]
  ELSE [disk |-> d, closed |-> isClosed]

\* the body shared by __exit__ and __del__: self._finish_write()
finish_write_call ==
  /\ wpc = "idle"
  /\ Len(how_closed) < MaxCloses
  /\ LET f == FinishWrite(disk, buf, closed)
     IN disk' = f.disk /\ closed' = f.closed
  /\ buf' = <<>>
  /\ diskAtClose' = IF how_closed = <<>> THEN disk \o buf ELSE diskAtClose
  /\ UNCHANGED <<arg_stat_names, stat_names, wrote_header, wpc, now,
                 ncalls, last_call, written, returned, returned_len>>
  /\ UNCHANGED <<readerVars, expVars, otherVars>>

\* Logger.__exit__: the with block is left; how is recorded for the history
__exit__ == finish_write_call /\ how_closed' = Append(how_closed, "exit")

\* Logger.__del__: the session object is destroyed
__del__ == finish_write_call /\ how_closed' = Append(how_closed, "del")

\* ------------------------------------------ a stats.csv of other origin
\* The reader takes any file named stats.csv.  Such a file begins with a
\* header, here of two columns; the lines that may follow it: a row of two
\* values, a row that lacks a value, a row of one short value, and the
\* empty line.
ForeignHeader == Chars("time") \o <<Comma, "a">>
ForeignLines ==
  { get_timestamp(0) \o <<Comma, "1">>,
    get_timestamp(0),
    <<"1">>,
    <<>> }

\* no Logger: the file was written by some other program
WrittenElsewhere(content) ==
  /\ arg_stat_names = None
  /\ stat_names = None
  /\ wrote_header = FALSE
  /\ buf = <<>>
  /\ disk = content
  /\ closed = FALSE
  /\ wpc = "absent"
  /\ now = 0
  /\ ncalls = 0
  /\ last_call = [points |-> <<>>, err |-> "no_call", out |-> <<>>,
                  prev_err |-> "no_call"]
  /\ written = <<>>
  /\ returned = 0
  /\ returned_len = 0
  /\ how_closed = <<>>
  /\ diskAtClose = <<>>
  /\ AverageInit
  /\ OpenInit

\* no Logger, and a file that is empty so far
NoLogger == WrittenElsewhere(<<>>)

\* the other program writes one more line, with its line break
foreign_append ==
  /\ wpc = "absent"
  /\ Len(CompleteLines(disk)) < MaxLines
  /\ \E line \in (IF disk = <<>> THEN {ForeignHeader} ELSE ForeignLines) :
       disk' = disk \o line \o <<NL>>
  /\ UNCHANGED <<arg_stat_names, stat_names, wrote_header, buf, closed, wpc,
                 now, ncalls, last_call, written, returned, returned_len,
                 how_closed, diskAtClose>>
  /\ UNCHANGED <<readerVars, expVars, otherVars>>

\* ----------------------------------------------------- ExperimentReader
\* file.readline() at position pos: up to and including the next line break,
\* or up to the end of the file
readline(content, pos) ==
  LET breaks == {i \in (pos + 1)..Len(content) : content[i] = NL}
  IN IF breaks = {} THEN SubSeq(content, pos + 1, Len(content))
     ELSE SubSeq(content, pos + 1,
                 CHOOSE i \in breaks : \A j \in breaks : i <= j)

\* (char in ('\n', '\r') for char in line): a generator object, which is
\* true whatever the line holds
GeneratorTruth(line) == TRUE

\* line 268: the test for the line that marks the end of the experiment
IsEndLine(line) ==
  1 <= Len(line) /\ Len(line) <= 2 /\ GeneratorTruth(line)

\* line 274: end of file reached without a line break
IsIncomplete(line) ==
  Len(line) = 0 \/ line[Len(line)] \notin {"\n", "\r"}

IsFloat(s) == s = NaN \/ (s # <<>> /\ \A i \in 1..Len(s) : IsDigit(s[i]))

\* lines 296-302: float(value), else datetime.fromisoformat(value), else the
\* string itself.  float() ignores surrounding whitespace, fromisoformat
\* does not.
ParseValue(value) ==
  IF IsFloat(Strip(value)) THEN [kind |-> "float", text |-> Strip(value)]
  ELSE IF IsTimestamp(value) THEN [kind |-> "datetime", text |-> value]
  ELSE [kind |-> "str", text |-> value]

\* lines 294-303: the row number, then every comma-separated value
ParseRow(line, nrows) ==
  LET values == SplitComma(line)
  IN <<nrows>> \o [i \in 1..Len(values) |-> ParseValue(values[i])]

\* lines 280-284: the column names, after the implicit first column
ParseHeader(line) ==
  <<Chars("iteration")>> \o SplitUnescaped(Strip(line))

Msg(type, payload) == [type |-> type, payload |-> payload]

RECURSIVE read_lines_loop(_, _, _, _, _, _)
\* the while loop of read_lines (lines 260-311); signals holds what was
\* emitted inside the loop
read_lines_loop(content, pos, ncols, nrows, rows, signals) ==
  LET line  == readline(content, pos)
      after == pos + Len(line)
      stop(isDone, isErr) ==
        [done |-> isDone, err |-> isErr, line_start |-> pos, pos |-> after,
         num_columns |-> ncols, num_rows |-> nrows, rows |-> rows,
         signals |-> signals]
  IN IF IsEndLine(line) THEN stop(TRUE, FALSE)
     ELSE IF IsIncomplete(line) THEN stop(FALSE, FALSE)
     ELSE IF IsNone(ncols)
       THEN LET headers == ParseHeader(line)
            IN read_lines_loop(content, after, Some(Len(headers)), nrows, rows,
                               Append(signals, Msg("header", headers)))
     ELSE LET row == ParseRow(line, nrows)
          IN IF Len(row) # Get(ncols) THEN stop(FALSE, TRUE)
             ELSE read_lines_loop(content, after, ncols, nrows + 1,
                                  Append(rows, row), signals)

\* list(zip(*rows))
Transpose(rows) ==
  IF rows = <<>> THEN <<>>
  ELSE [j \in 1..Len(rows[1]) |-> [i \in 1..Len(rows) |-> rows[i][j]]]

\* a read_lines that tells of the end before it hands over the rows
read_lines_done_first(content, pos, ncols, nrows) ==
  LET r == read_lines_loop(content, pos, ncols, nrows, <<>>, <<>>)
  IN [r EXCEPT
        !.rows = IF r.err THEN <<>> ELSE r.rows,
        !.signals =
           r.signals
           \o (IF ~r.err /\ r.done THEN <<Msg("done", <<>>)>> ELSE <<>>)
           \o (IF ~r.err /\ Len(r.rows) > 0
               THEN <<Msg("data", Transpose(r.rows))>> ELSE <<>>)]

\* ExperimentReader.read_lines, from the file position pos.  An IOError
\* leaves the loop before anything after it is emitted.
read_lines(content, pos, ncols, nrows) ==
  LET r == read_lines_loop(content, pos, ncols, nrows, <<>>, <<>>)
  IN [r EXCEPT
        !.rows = IF r.err THEN <<>> ELSE r.rows,
        !.signals =
           r.signals
           \o (IF ~r.err /\ Len(r.rows) > 0
               THEN <<Msg("data", Transpose(r.rows))>> ELSE <<>>)
           \o (IF ~r.err /\ r.done THEN <<Msg("done", <<>>)>> ELSE <<>>)]

\* a poll that does not restore the read position
seek_omitted(pos, target) == pos

\* file.seek(line_start) on the handle that read_data_fast keeps open
seek(pos, target) == target

\* a polling loop that does not look at done
AfterRead_loops_on(r) ==
  IF r.err THEN "error" ELSE "sleep"

\* what follows a read_lines call in both polling loops
AfterRead(r) ==
  IF r.err THEN "error" ELSE IF r.done THEN "done" ELSE "sleep"

ReaderInit ==
  /\ force_reopen_files \in BOOLEAN
  /\ rpc = "init"
  /\ file_pos = 0
  /\ line_start = None
  /\ old_size = 0
  /\ num_columns = None
  /\ num_rows = 0
  /\ queue = <<>>
  /\ polls = 0
  /\ seen = 0
  /\ emitted = <<>>
  /\ done_emitted = 0
  /\ logged = 0
  /\ escaped = 0

\* an except clause that catches nothing
Caught_nothing(class) == FALSE

\* start_reading, line 220: except (IOError, FSError, ValueError)
Caught(class) == class \in {"IOError", "FSError", "ValueError"}

\* start_reading, lines 215-221, around a read_lines call that returned r:
\* the IOError of a malformed line is logged once if the except clause
\* catches it, and leaves the slot otherwise
start_reading_except(r) ==
  IF ~r.err THEN [logged |-> 0, escaped |-> 0]
  ELSE IF Caught("IOError") THEN [logged |-> 1, escaped |-> 0]
  ELSE [logged |-> 0, escaped |-> 1]

\* the state after one read_lines call returned r
ReadStep(r) ==
  /\ rpc' = AfterRead(r)
  /\ file_pos' = r.pos
  /\ line_start' = Some(r.line_start)
  /\ num_columns' = r.num_columns
  /\ num_rows' = r.num_rows
  /\ queue' = queue \o r.signals
  /\ seen' = Len(disk)
  /\ emitted' = emitted \o r.rows
  /\ done_emitted' = done_emitted + (IF r.done /\ ~r.err THEN 1 ELSE 0)
  /\ logged' = logged + start_reading_except(r).logged
  /\ escaped' = escaped + start_reading_except(r).escaped

\* one cycle of read_data_fast: the first read, or sleep, seek and read
read_data_fast ==
  /\ ~force_reopen_files
  /\ rpc \in {"init", "sleep"}
  /\ polls < MaxPolls
  /\ LET pos == IF rpc = "init" THEN 0 ELSE seek(file_pos, Get(line_start))
     IN ReadStep(read_lines(disk, pos, num_columns, num_rows))
  /\ polls' = polls + 1
  /\ UNCHANGED <<force_reopen_files, old_size>>
  /\ UNCHANGED <<writerVars, expVars, otherVars>>

\* one cycle of read_data_slow: the file is reopened and read only when its
\* size differs from the one seen last
read_data_slow ==
  /\ force_reopen_files
  /\ rpc \in {"init", "sleep"}
  /\ polls < MaxPolls
  /\ IF Len(disk) # old_size
     THEN /\ old_size' = Len(disk)
          /\ LET pos == IF IsNone(line_start) THEN 0 ELSE seek(0, Get(line_start))
             IN ReadStep(read_lines(disk, pos, num_columns, num_rows))
     ELSE /\ rpc' = "sleep"
          /\ UNCHANGED <<old_size, file_pos, line_start, num_columns, num_rows,
                         queue, seen, emitted, done_emitted, logged, escaped>>
  /\ polls' = polls + 1
  /\ UNCHANGED force_reopen_files
  /\ UNCHANGED <<writerVars, expVars, otherVars>>

\* A second reader, with force_reopen_files set: the fields of an
\* ExperimentReader, the history kept for the first one, the signals it
\* emitted, and how many polls the first reader had made when this one failed.
TwinStart ==
  [rpc |-> "init", line_start |-> None, old_size |-> 0,
   num_columns |-> None, num_rows |-> 0, polls |-> 0, seen |-> 0,
   emitted |-> <<>>, done_emitted |-> 0, logged |-> 0, escaped |-> 0,
   signals |-> <<>>, failed_at |-> None]

\* the second reader reads the file of the first
TwinInit == twin = TwinStart /\ twin_disk = None

\* the file the second reader reads
TwinFile == IF IsNone(twin_disk) THEN disk ELSE Get(twin_disk)

\* one cycle of read_data_slow of the second reader
twin_read_data_slow ==
  /\ twin.rpc \in {"init", "sleep"}
  /\ twin.polls < MaxPolls
  /\ twin' =
       IF Len(TwinFile) # twin.old_size
       THEN LET pos == IF IsNone(twin.line_start) THEN 0
                       ELSE seek(0, Get(twin.line_start))
                r == read_lines(TwinFile, pos, twin.num_columns, twin.num_rows)
            IN [rpc |-> AfterRead(r),
                line_start |-> Some(r.line_start),
                old_size |-> Len(TwinFile),
                num_columns |-> r.num_columns,
                num_rows |-> r.num_rows,
                polls |-> twin.polls + 1,
                seen |-> Len(TwinFile),
                emitted |-> twin.emitted \o r.rows,
                done_emitted |-> twin.done_emitted
                                 + (IF r.done /\ ~r.err THEN 1 ELSE 0),
                logged |-> twin.logged + start_reading_except(r).logged,
                escaped |-> twin.escaped + start_reading_except(r).escaped,
                signals |-> twin.signals \o r.signals,
                failed_at |-> IF r.err THEN Some(polls) ELSE twin.failed_at]
       ELSE [twin EXCEPT !.rpc = "sleep", !.polls = @ + 1]
  /\ UNCHANGED twin_disk
  /\ UNCHANGED <<writerVars, readerVars, expVars, metaVars, sessionVars,
                 crawlVars, visVars>>

\* ------------------------------------------------------------ Experiment
ExperimentInit ==
  /\ metrics = <<>>
  /\ data = <<>>
  /\ exp_done = FALSE
  /\ handed = <<>>

\* Experiment.on_header_ready
on_header_ready ==
  /\ queue # <<>> /\ Head(queue).type = "header"
  /\ metrics' = Head(queue).payload
  /\ data' = [i \in 1..Len(Head(queue).payload) |-> <<>>]
  /\ queue' = Tail(queue)
  /\ handed' = Append(handed, "header")
  /\ UNCHANGED exp_done
  /\ UNCHANGED <<force_reopen_files, rpc, file_pos, line_start, old_size,
                 num_columns, num_rows, polls, seen, emitted, done_emitted,
                 logged, escaped>>
  /\ UNCHANGED <<writerVars, otherVars>>

\* a slot that extends the first column only
Extend_first_column(columns, new) ==
  [i \in 1..Len(columns) |->
     IF i = 1 /\ i <= Len(new) THEN columns[i] \o new[i] ELSE columns[i]]

\* for (column, new_values) in zip(self.data, data): column.extend(new_values)
Extend(columns, new) ==
  [i \in 1..Len(columns) |->
     IF i <= Len(new) THEN columns[i] \o new[i] ELSE columns[i]]

\* Experiment.on_data_ready
on_data_ready ==
  /\ queue # <<>> /\ Head(queue).type = "data"
  /\ data' = Extend(data, Head(queue).payload)
  /\ queue' = Tail(queue)
  /\ handed' = Append(handed, "data")
  /\ UNCHANGED <<metrics, exp_done>>
  /\ UNCHANGED <<force_reopen_files, rpc, file_pos, line_start, old_size,
                 num_columns, num_rows, polls, seen, emitted, done_emitted,
                 logged, escaped>>
  /\ UNCHANGED <<writerVars, otherVars>>

\* Experiment.on_done
on_done ==
  /\ queue # <<>> /\ Head(queue).type = "done"
  /\ exp_done' = TRUE
  /\ queue' = Tail(queue)
  /\ handed' = Append(handed, "done")
  /\ UNCHANGED <<metrics, data>>
  /\ UNCHANGED <<force_reopen_files, rpc, file_pos, line_start, old_size,
                 num_columns, num_rows, polls, seen, emitted, done_emitted,
                 logged, escaped>>
  /\ UNCHANGED <<writerVars, otherVars>>

\* ---------------------------------------------------- ExperimentsCrawler
\* the stats.csv files that may exist, numbered in the order of a walk
RunPaths == 1..MaxRuns

\* the elements of a list, as a set
SetOf(list) == {list[i] : i \in 1..Len(list)}

\* a crawler that does not remember what it emitted
KnownAfterEmit_forgets(known, new) == known

\* known_files.update(set(new_files))
KnownAfterEmit(known, new) == known \cup SetOf(new)

\* start_crawling up to the first walk, with the files present by then
CrawlerInit ==
  /\ present \in SUBSET RunPaths
  /\ cpc = "walk"
  /\ cursor = 0
  /\ known_files = {}
  /\ new_files = <<>>
  /\ ready_queue = <<>>
  /\ exps = {}
  /\ walks = 0
  /\ at_walk_start = present
  /\ reported = <<>>
  /\ started = <<>>

\* no crawler: no base folder is watched
NoCrawler == CrawlerInit /\ present = {}

\* lines 75-78 and 82-85: emit what was found, remember it, start afresh
EmitNewFiles(found) ==
  IF Len(found) > 0
  THEN /\ ready_queue' = Append(ready_queue, found)
       /\ reported' = reported \o found
       /\ known_files' = KnownAfterEmit(known_files, found)
       /\ new_files' = <<>>
  ELSE /\ new_files' = found
       /\ UNCHANGED <<ready_queue, reported, known_files>>

\* a training process creates its stats.csv under the base folder
add_run ==
  /\ \E r \in RunPaths \ present : present' = present \cup {r}
  /\ UNCHANGED <<cpc, cursor, known_files, new_files, ready_queue, exps,
                 walks, at_walk_start, reported, started>>
  /\ UNCHANGED <<writerVars, readerVars, expVars, metaVars, sessionVars,
                 twinVars, visVars>>

\* one iteration of the for loop (lines 68-79): the walk comes to the next
\* place; a file there that is not known is noted and, if the walk has been
\* taking more than half a second, emitted with the others noted so far
crawl_visit ==
  /\ cpc = "walk"
  /\ cursor < MaxRuns
  /\ cursor' = cursor + 1
  /\ LET filename == cursor + 1
     IN IF filename \in present /\ filename \notin known_files
        THEN \E elapsed \in BOOLEAN :
               IF elapsed THEN EmitNewFiles(Append(new_files, filename))
               ELSE /\ new_files' = Append(new_files, filename)
                    /\ UNCHANGED <<ready_queue, reported, known_files>>
        ELSE UNCHANGED <<new_files, ready_queue, reported, known_files>>
  /\ UNCHANGED <<present, cpc, exps, walks, at_walk_start, started>>
  /\ UNCHANGED <<writerVars, readerVars, expVars, metaVars, sessionVars,
                 twinVars, visVars>>

\* lines 81-88: the walk is over; emit what is left and go to sleep
crawl_walk_end ==
  /\ cpc = "walk"
  /\ cursor = MaxRuns
  /\ EmitNewFiles(new_files)
  /\ cpc' = "sleep"
  /\ walks' = walks + 1
  /\ UNCHANGED <<present, cursor, exps, at_walk_start, started>>
  /\ UNCHANGED <<writerVars, readerVars, expVars, metaVars, sessionVars,
                 twinVars, visVars>>

\* lines 64-67: the sleep is over and the next walk begins
crawl_wake ==
  /\ cpc = "sleep"
  /\ walks < MaxWalks
  /\ cpc' = "walk"
  /\ cursor' = 0
  /\ new_files' = <<>>
  /\ at_walk_start' = present
  /\ UNCHANGED <<present, known_files, ready_queue, exps, walks, reported,
                 started>>
  /\ UNCHANGED <<writerVars, readerVars, expVars, metaVars, sessionVars,
                 twinVars, visVars>>

\* Experiments.on_experiments_ready: an Experiment for every path received
on_experiments_ready ==
  /\ ready_queue # <<>>
  /\ started' = started \o Head(ready_queue)
  /\ exps' = exps \cup SetOf(Head(ready_queue))
  /\ ready_queue' = Tail(ready_queue)
  /\ UNCHANGED <<present, cpc, cursor, known_files, new_files, walks,
                 at_walk_start, reported>>
  /\ UNCHANGED <<writerVars, readerVars, expVars, metaVars, sessionVars,
                 twinVars, visVars>>

\* ------------------------------------------------------ visualizations
\* Names a caller may give a visualization, and the functions it may pass:
\* a function defined at the top level of a script, the built-in 'tensor',
\* and a lambda.
VisNames == {"A", "B"}
VisFuncs == {"f", "tensor", "<lambda>"}
\* the positional arguments of a call: two values that pickle to different
\* sizes
VisArgs == {<<"x">>, <<"x", "x">>}
\* the text of the caller's script, before and after the caller edits it
ScriptTexts == {"v1", "v2"}
Tab == "\t"

\* save(data, filename): the bytes written, one per field and one per
\* element of args
Pickled(d) == <<d.func, d.source>> \o d.args
\* the sizes at which a reader may find a file of n bytes that is being
\* written: just opened, and one byte short of complete
PartialSizes(n) == {0, n - 1}
\* os.path.getsize of a payload file
FileSize(file) == file.written + file.pad
\* a file that is not being written holds all of its data
Complete(file) == file.written = Len(Pickled(file.data))
\* size of the payload file of a name, None when the file does not exist
SizeOnDisk(name) ==
  IF IsNone(vis_files[name]) THEN None ELSE Some(FileSize(Get(vis_files[name])))

\* info['func'] != func
Conflict_ignored(info, func) == FALSE
Conflict(info, func) == info.func # func

\* name in self.vis_file_sizes and size == self.vis_file_sizes[name]
SameSize_never(known, size) == FALSE
SameSize(known, size) == ~IsNone(known) /\ size = Get(known)

\* What a call finds under its name: the error it raises, or the source
\* file it records and whether the script is copied next to the run.
Binding(func, name) ==
  IF ~IsNone(vis_functions[name])
  THEN IF Conflict(Get(vis_functions[name]), func)
       THEN [error |-> Some("IdentityConflict"), source |-> "", copy |-> FALSE,
             first |-> FALSE]
       ELSE [error |-> None, source |-> Get(vis_functions[name]).source,
             copy |-> FALSE, first |-> FALSE]
  ELSE IF func = "tensor"
       THEN [error |-> None, source |-> "builtin", copy |-> FALSE, first |-> TRUE]
       ELSE IF func = "<lambda>"
            THEN [error |-> Some("ValueError"), source |-> "", copy |-> FALSE,
                  first |-> TRUE]
            ELSE [error |-> None, source |-> "script.py", copy |-> TRUE,
                  first |-> TRUE]

\* '%i' % value
RECURSIVE FormatInt(_)
FormatInt(n) ==
  IF n < 10 THEN <<Digit(n)>> ELSE FormatInt(n \div 10) \o <<Digit(n % 10)>>

\* the lines '%s\t%i\n' % (key, value) of the index file
RECURSIVE IndexLines(_)
IndexLines(counts) ==
  IF counts = <<>> THEN <<>>
  ELSE <<Head(counts).key, Tab>> \o FormatInt(Head(counts).value) \o <<NL>>
       \o IndexLines(Tail(counts))
\* ' ' * n
Spaces(n) == [i \in 1..n |-> " "]

\* self.vis_counts[name] = 0 at the first use, then += 1
Counted(counts, name, first) ==
  LET all == IF first THEN Append(counts, [key |-> name, value |-> 0])
             ELSE counts
  IN [i \in 1..Len(all) |->
        IF all[i].key = name THEN [all[i] EXCEPT !.value = @ + 1] ELSE all[i]]

NoCall ==
  [name |-> "", func |-> "", args |-> <<>>, result |-> "none", before |-> None]
NoTick == [entry |-> None, result |-> "none", folder |-> ""]
LoaderStart ==
  [timer |-> "unset", base_folder |-> "", fs |-> None, exp_done |-> FALSE,
   known_file_sizes |-> [n \in VisNames |-> None],
   files_iterator |-> None, retry_file |-> None,
   source_code |-> [n \in VisNames |-> None]]

\* after Logger.__init__ of either package and VisualizationsLoader.__init__
VisInit ==
  /\ index_layout \in BOOLEAN
  /\ vis_functions = [n \in VisNames |-> None]
  /\ vis_file_sizes = [n \in VisNames |-> None]
  /\ vis_counts = <<>>
  /\ vis_padding = 0
  /\ vis_index = <<>>
  /\ vis_dir = FALSE
  /\ vis_files = [n \in VisNames |-> None]
  /\ vis_sources = [n \in VisNames |-> None]
  /\ script = "v1"
  /\ vpc = "idle"
  /\ vis_ncalls = 0
  /\ vis_call = NoCall
  /\ loader = LoaderStart
  /\ selects = 0
  /\ last_tick = NoTick
  /\ ready_count = 0
  /\ vis_logged = 0
  /\ source_reads = [n \in VisNames |-> 0]
  /\ delivered = [n \in VisNames |-> None]
  /\ sel_queue = <<>>
  /\ vis_ready = <<>>
  /\ modules = [n \in VisNames |-> None]
  /\ panels = [n \in VisNames |-> None]
  /\ selected = ""
\* a run that logs no visualization, with the Logger of overboard_logger
NoVis == VisInit /\ ~index_layout

\* the caller edits its script between two calls
edit_script ==
  /\ script = "v1"
  /\ script' = "v2"
  /\ UNCHANGED <<visWriterVars, visHistVars, loaderVars>>
  /\ UNCHANGED panelVars
  /\ UNCHANGED <<writerVars, readerVars, expVars, metaVars, sessionVars,
                 crawlVars, twinVars>>

\* Logger.visualize of overboard_logger, up to the moment save() has begun
\* to write the payload file
visualize_with(funcs, argsSet) ==
  /\ ~index_layout
  /\ vpc = "idle"
  /\ vis_ncalls < MaxVisCalls
  /\ \E func \in funcs, name \in VisNames, args \in argsSet :
       LET r == Binding(func, name)
           payload == [func |-> func, source |-> r.source, args |-> args]
       IN IF ~IsNone(r.error)
          THEN /\ vis_call' = [name |-> name, func |-> func, args |-> args,
                               result |-> Get(r.error), before |-> None]
               /\ UNCHANGED <<vis_functions, vis_sources, vis_files, vpc>>
          ELSE /\ vis_functions' =
                    [vis_functions EXCEPT
                       ![name] = Some([func |-> func, source |-> r.source])]
               /\ vis_sources' =
                    IF r.copy THEN [vis_sources EXCEPT ![name] = Some(script)]
                    ELSE vis_sources
               /\ \E k \in PartialSizes(Len(Pickled(payload))) :
                    vis_files' =
                      [vis_files EXCEPT
                         ![name] = Some([data |-> payload, written |-> k, pad |-> 0])]
               /\ vpc' = "saving"
               /\ vis_call' = [name |-> name, func |-> func, args |-> args,
                               result |-> "saving", before |-> SizeOnDisk(name)]
  /\ vis_dir' = TRUE
  /\ vis_ncalls' = vis_ncalls + 1
  /\ UNCHANGED <<index_layout, vis_file_sizes, vis_counts, vis_padding,
                 vis_index, script, loaderVars>>
  /\ UNCHANGED panelVars
  /\ UNCHANGED <<writerVars, readerVars, expVars, metaVars, sessionVars,
                 crawlVars, twinVars>>

\* the visualize calls of a run
visualize == visualize_with(VisFuncs, VisArgs)

\* the visualize calls of the run that the loader polls: named functions
\* with one argument
polled_visualize == visualize_with({"f", "tensor"}, {<<"x">>})

\* the visualize calls of a run that logs tensors of one size
resized_visualize == visualize_with({"tensor"}, {<<"x">>, <<"y">>})

\* the rest of that call: save() returns, the file is padded if its size is
\* the one recorded at the previous call, and the size is recorded
visualize_saved ==
  /\ ~index_layout
  /\ vpc = "saving"
  /\ LET name == vis_call.name
         file == Get(vis_files[name])
         size == Len(Pickled(file.data))
         pad  == SameSize(vis_file_sizes[name], size)
     IN /\ vis_files' =
             [vis_files EXCEPT
                ![name] = Some([data |-> file.data, written |-> size,
                                pad |-> IF pad THEN 1 ELSE 0])]
        /\ vis_file_sizes' =
             [vis_file_sizes EXCEPT
                ![name] = Some(IF pad THEN size + 1 ELSE size)]
  /\ vpc' = "idle"
  /\ vis_call' = [vis_call EXCEPT !.result = "ok"]
  /\ UNCHANGED <<index_layout, vis_functions, vis_counts, vis_padding,
                 vis_index, vis_dir, vis_sources, script, vis_ncalls,
                 loaderVars>>
  /\ UNCHANGED panelVars
  /\ UNCHANGED <<writerVars, readerVars, expVars, metaVars, sessionVars,
                 crawlVars, twinVars>>

\* Logger.visualize of the overboard package: the payload is saved, the
\* count of the name goes up and the index file is written again, padded
visualize_index ==
  /\ index_layout
  /\ vis_ncalls < MaxIndexCalls
  /\ \E func \in VisFuncs, name \in VisNames, args \in VisArgs :
       LET r == Binding(func, name)
           payload == [func |-> func, source |-> r.source, args |-> args]
           counts == Counted(vis_counts, name, r.first)
           padding == (vis_padding % (Len(counts) + 1)) + 1
       IN IF ~IsNone(r.error)
          THEN /\ vis_call' = [name |-> name, func |-> func, args |-> args,
                               result |-> Get(r.error), before |-> None]
               /\ UNCHANGED <<vis_functions, vis_sources, vis_files,
                              vis_counts, vis_padding, vis_index>>
          ELSE /\ vis_functions' =
                    [vis_functions EXCEPT
                       ![name] = Some([func |-> func, source |-> r.source])]
               /\ vis_sources' =
                    IF r.copy THEN [vis_sources EXCEPT ![name] = Some(script)]
                    ELSE vis_sources
               /\ vis_files' =
                    [vis_files EXCEPT
                       ![name] = Some([data |-> payload,
                                       written |-> Len(Pickled(payload)),
                                       pad |-> 0])]
               /\ vis_counts' = counts
               /\ vis_padding' = padding
               /\ vis_index' = IndexLines(counts) \o Spaces(padding)
               /\ vis_call' = [name |-> name, func |-> func, args |-> args,
                               result |-> "ok", before |-> Some(Len(vis_index))]
  /\ vis_ncalls' = vis_ncalls + 1
  /\ UNCHANGED <<index_layout, vis_file_sizes, vis_dir, script, vpc, loaderVars>>
  /\ UNCHANGED panelVars
  /\ UNCHANGED <<writerVars, readerVars, expVars, metaVars, sessionVars,
                 crawlVars, twinVars>>

\* The folders the window may select: that of the run the Logger writes,
\* that of another run, finished, with one tensor payload, and '' for none.
Folders == {"run1", "run2", ""}
OtherFiles ==
  [n \in VisNames |->
     IF n = "A"
     THEN Some([data |-> [func |-> "tensor", source |-> "builtin", args |-> <<"x">>],
                written |-> 3, pad |-> 0])
     ELSE None]
\* the folder 'visualizations' of a run exists; its payload files and copies
FolderExists(folder) == IF folder = "run1" THEN vis_dir ELSE TRUE
FolderFiles(folder) == IF folder = "run1" THEN vis_files ELSE OtherFiles
FolderSources(folder) ==
  IF folder = "run1" THEN vis_sources ELSE [n \in VisNames |-> None]

\* self.fs.close(); self.fs = None
ClosedFs_kept(fs) == fs
ClosedFs(fs) == None

\* VisualizationsLoader.select_folder(folder, exp_done)
select_folder_call(folder, done) ==
  /\ loader' = [LoaderStart EXCEPT !.timer = "armed", !.base_folder = folder,
                                   !.exp_done = done,
                                   !.fs = ClosedFs(loader.fs)]
  /\ last_tick' = NoTick
  /\ source_reads' = [n \in VisNames |-> 0]
  /\ delivered' = [n \in VisNames |-> None]
  /\ UNCHANGED <<ready_count, vis_logged>>
  /\ UNCHANGED <<visWriterVars, script, visHistVars>>
  /\ UNCHANGED <<writerVars, readerVars, expVars, metaVars, sessionVars,
                 crawlVars, twinVars>>

\* the slot called with any folder
select_folder ==
  /\ selects < MaxSelects
  /\ \E folder \in Folders, done \in BOOLEAN : select_folder_call(folder, done)
  /\ selects' = selects + 1
  /\ UNCHANGED panelVars

\* fs.filterdir('.', files=['*.pth']): the payload files in the folder
Listing(folder) == {n \in VisNames : ~IsNone(FolderFiles(folder)[n])}

\* load(file): a file still being written fails, with the RuntimeError
\* 'storage has wrong size' or with another exception
LoadOutcomes(file) ==
  IF Complete(file) THEN {"ok"} ELSE {"wrong_size", "other"}

\* logging.exception in the except clause of the load
Logged_never(outcome) == FALSE
Logged(outcome) == outcome = "other"

\* name in self.source_code
SourceLoaded_never(source_code, name) == FALSE
SourceLoaded(source_code, name) == ~IsNone(source_code[name])

\* one tick of the loader's timer: VisualizationsLoader.poll
poll_tick ==
  /\ loader.timer = "armed"
  /\ IF loader.base_folder = ""
     THEN \* return, and the single-shot timer is not started again
          /\ loader' = [loader EXCEPT !.timer = "stopped"]
          /\ last_tick' = [entry |-> None, result |-> "no_folder", folder |-> ""]
          /\ UNCHANGED <<ready_count, vis_logged, source_reads, delivered>>
     ELSE IF IsNone(loader.fs) /\ ~FolderExists(loader.base_folder)
     THEN \* open_fs raises FSError: the folder does not exist yet
          /\ last_tick' = [entry |-> None, result |-> "no_dir", folder |-> ""]
          /\ UNCHANGED <<loader, ready_count, vis_logged, source_reads,
                         delivered>>
     ELSE LET fs == IF IsNone(loader.fs) THEN Some(loader.base_folder)
                    ELSE loader.fs
              folder == Get(fs)
              it == IF IsNone(loader.files_iterator) THEN Listing(folder)
                    ELSE Get(loader.files_iterator)
              retry == ~IsNone(loader.retry_file)
              entries ==
                IF retry THEN {loader.retry_file}
                ELSE IF it = {} THEN {None}
                ELSE {Some([name |-> n,
                            size |-> FileSize(Get(FolderFiles(folder)[n]))]) :
                        n \in it}
          IN \E entry \in entries :
               IF IsNone(entry)
               THEN /\ loader' =
                         [loader EXCEPT
                            !.fs = fs,
                            !.files_iterator =
                               IF loader.exp_done THEN Some(it) ELSE None,
                            !.timer =
                               IF loader.exp_done THEN "stopped" ELSE "armed"]
                    /\ last_tick' = [entry |-> None, result |-> "idle",
                                     folder |-> folder]
                    /\ UNCHANGED <<ready_count, vis_logged, source_reads, delivered>>
               ELSE LET e == Get(entry)
                        rest == IF retry THEN it ELSE it \ {e.name}
                        file == Get(FolderFiles(folder)[e.name])
                        code == IF SourceLoaded(loader.source_code, e.name)
                                THEN loader.source_code[e.name]
                                ELSE Some(FolderSources(folder)[e.name])
                    IN IF Some(e.size) = loader.known_file_sizes[e.name]
                       THEN /\ loader' =
                                 [loader EXCEPT !.fs = fs,
                                                !.files_iterator = Some(rest),
                                                !.retry_file = None]
                            /\ last_tick' = [entry |-> entry, result |-> "known",
                                             folder |-> folder]
                            /\ UNCHANGED <<ready_count, vis_logged,
                                           source_reads, delivered>>
                       ELSE \E outcome \in LoadOutcomes(file) :
                              /\ loader' =
                                   [loader EXCEPT
                                      !.fs = fs,
                                      !.files_iterator = Some(rest),
                                      !.known_file_sizes[e.name] = Some(e.size),
                                      !.source_code[e.name] = code,
                                      !.retry_file =
                                         IF outcome = "wrong_size" THEN entry
                                         ELSE None]
                              /\ last_tick' = [entry |-> entry, result |-> outcome,
                                               folder |-> folder]
                              /\ ready_count' =
                                   IF outcome = "ok" THEN ready_count + 1
                                   ELSE ready_count
                              /\ vis_logged' =
                                   IF Logged(outcome) THEN vis_logged + 1
                                   ELSE vis_logged
                              /\ source_reads' =
                                   IF SourceLoaded(loader.source_code, e.name)
                                   THEN source_reads
                                   ELSE [source_reads EXCEPT ![e.name] = @ + 1]
                              /\ delivered' =
                                   IF outcome = "ok"
                                   THEN [delivered EXCEPT
                                           ![e.name] = Some(file.data)]
                                   ELSE delivered
  /\ UNCHANGED selects
  /\ UNCHANGED <<visWriterVars, script, visHistVars>>
  /\ UNCHANGED <<writerVars, readerVars, expVars, metaVars, sessionVars,
                 crawlVars, twinVars>>

\* a tick whose signal is only counted
poll == poll_tick /\ UNCHANGED panelVars

\* -------------------------------------------------------- Visualizations
\* the visualization_ready signal of a tick that loaded a payload:
\* emit(name, data, self.source_code[name])
Emitted(tick, files, sources) ==
  IF tick.result # "ok" THEN <<>>
  ELSE LET name == Get(tick.entry).name
       IN <<[name |-> name, data |-> Get(files[name]).data,
             source_code |-> Get(sources[name]), folder |-> tick.folder]>>

\* a tick whose signal is queued for the main thread
poll_emit ==
  /\ poll_tick
  /\ vis_ready' = vis_ready \o Emitted(last_tick', FolderFiles(last_tick'.folder),
                                        loader'.source_code)
  /\ UNCHANGED <<sel_queue, modules, panels, selected>>

\* the slot called with the signal that Visualizations.select emitted
select_folder_slot ==
  /\ sel_queue # <<>>
  /\ select_folder_call(Head(sel_queue).folder, Head(sel_queue).done)
  /\ sel_queue' = Tail(sel_queue)
  /\ UNCHANGED <<selects, vis_ready, modules, panels, selected>>

\* Visualizations.select(exp), lines 184-195: exp is a run, or None
select ==
  /\ selects < MaxSelects
  /\ \E folder \in Folders, done \in BOOLEAN :
       /\ (folder = "" => ~done)
       /\ sel_queue' = Append(sel_queue, [folder |-> folder, done |-> done])
       /\ selected' = folder
  /\ panels' = [n \in VisNames |-> None]
  /\ modules' = [n \in VisNames |-> None]
  /\ selects' = selects + 1
  /\ UNCHANGED <<loader, last_tick, ready_count, vis_logged, source_reads,
                 delivered, vis_ready>>
  /\ UNCHANGED <<visWriterVars, script, visHistVars>>
  /\ UNCHANGED <<writerVars, readerVars, expVars, metaVars, sessionVars,
                 crawlVars, twinVars>>

\* Visualizations.render_visualization, lines 71-112: the plots returned and
\* self.modules afterwards.  The built-in is called directly; for a custom
\* function the call is in the branch that loads the module, so a cached
\* module gives no plots; source code that is None fails in exec.
render_visualization(name, payload, source_code, mods) ==
  LET plot == [func |-> payload.func, args |-> payload.args]
  IN IF payload.source = "builtin" /\ payload.func = "tensor"
       THEN [plots |-> <<plot>>, modules |-> mods]
     ELSE IF ~IsNone(mods[name])
       THEN [plots |-> <<>>, modules |-> mods]
     ELSE IF IsNone(source_code)
       THEN [plots |-> <<>>, modules |-> mods]
     ELSE [plots |-> <<plot>>,
           modules |-> [mods EXCEPT ![name] = source_code]]

\* Visualizations.on_visualization_ready, lines 115-182: the plots are
\* rendered and their panels replace those of the name
on_visualization_ready ==
  /\ vis_ready # <<>>
  /\ LET m == Head(vis_ready)
         r == render_visualization(m.name, m.data, m.source_code, modules)
     IN /\ modules' = r.modules
        /\ panels' =
             [panels EXCEPT
                ![m.name] =
                   Some([k \in 1..Len(r.plots) |->
                           [func |-> r.plots[k].func, args |-> r.plots[k].args,
                            folder |-> m.folder]])]
  /\ vis_ready' = Tail(vis_ready)
  /\ UNCHANGED <<sel_queue, selected>>
  /\ UNCHANGED <<loaderVars, visWriterVars, script, visHistVars>>
  /\ UNCHANGED <<writerVars, readerVars, expVars, metaVars, sessionVars,
                 crawlVars, twinVars>>

\* ------------------------------------------------- the notes of a run
\* texts the user may leave in the notes cell of the table
NoteTexts == {<<>>, <<"n">>, <<"m">>}
\* exp.meta.get('notes', '')
NotesOf(meta) ==
  IF \E e \in meta : e.key = "notes"
  THEN (CHOOSE e \in meta : e.key = "notes").value ELSE <<>>
\* exp.meta['notes'] = text
WithNotes(meta, text) ==
  {e \in meta : e.key # "notes"} \cup {[key |-> "notes", value |-> text]}

\* ExperimentReader.start_reading, the part about meta.json, and
\* Experiment.on_meta_ready: a missing file gives an empty mapping
read_meta ==
  /\ epc = "idle"
  /\ exp_meta' = IF IsNone(meta_json) THEN {} ELSE Get(meta_json)
  /\ UNCHANGED <<save_timestamp, arg_meta, meta_json, meta_torn, meta_partial,
                 epc, meta_before, edits>>
  /\ UNCHANGED <<writerVars, readerVars, expVars, crawlVars, twinVars, visVars,
                 sessionVars>>

\* Window.on_table_edit with a changed text, up to open(..., 'w') of
\* meta.json.partial
table_edit ==
  /\ epc = "idle"
  /\ edits < MaxEdits
  /\ \E text \in NoteTexts :
       /\ text # NotesOf(exp_meta)
       /\ exp_meta' = WithNotes(exp_meta, text)
       /\ meta_partial' = Some([meta |-> WithNotes(exp_meta, text), torn |-> TRUE])
  /\ epc' = "opened"
  /\ meta_before' = meta_json
  /\ edits' = edits + 1
  /\ UNCHANGED <<save_timestamp, arg_meta, meta_json, meta_torn>>
  /\ UNCHANGED <<writerVars, readerVars, expVars, crawlVars, twinVars, visVars,
                 sessionVars>>

\* json.dump returns and the with block closes meta.json.partial
table_edit_dumped ==
  /\ epc = "opened"
  /\ meta_partial' = Some([Get(meta_partial) EXCEPT !.torn = FALSE])
  /\ epc' = "dumped"
  /\ UNCHANGED <<save_timestamp, arg_meta, meta_json, meta_torn, exp_meta,
                 meta_before, edits>>
  /\ UNCHANGED <<writerVars, readerVars, expVars, crawlVars, twinVars, visVars,
                 sessionVars>>

\* the position at which os.replace is reached
ReplaceWhen_early(pc) == pc \in {"opened", "dumped"}
ReplaceWhen(pc) == pc = "dumped"

\* os.replace(meta.json.partial, meta.json)
table_edit_replace ==
  /\ ReplaceWhen(epc)
  /\ meta_json' = Some(Get(meta_partial).meta)
  /\ meta_torn' = Get(meta_partial).torn
  /\ meta_partial' = None
  /\ epc' = "idle"
  /\ UNCHANGED <<save_timestamp, arg_meta, exp_meta, meta_before, edits>>
  /\ UNCHANGED <<writerVars, readerVars, expVars, crawlVars, twinVars, visVars,
                 sessionVars>>

\* the observer process dies, at any step of the save or between two
observer_crash ==
  /\ epc \in {"idle", "opened", "dumped"}
  /\ epc' = "crashed"
  /\ UNCHANGED <<save_timestamp, arg_meta, meta_json, meta_torn, meta_partial,
                 exp_meta, meta_before, edits>>
  /\ UNCHANGED <<writerVars, readerVars, expVars, crawlVars, twinVars, visVars,
                 sessionVars>>

\* ------------------------------------------------------------ averages
\* values a caller may pass to update_average, and the mappings it passes:
\* empty or with one entry
AvgValues == {1, 2}
AvgPoints ==
  {<<>>} \cup {<<[name |-> n, value |-> v]>> : n \in Names, v \in AvgValues}

\* one entry of points added to avg_accum and avg_count
AddValue(acc, e) ==
  IF \E i \in 1..Len(acc) : acc[i].name = e.name
  THEN [i \in 1..Len(acc) |->
          IF acc[i].name = e.name
          THEN [acc[i] EXCEPT !.sum = @ + e.value, !.count = @ + 1]
          ELSE acc[i]]
  ELSE Append(acc, [name |-> e.name, sum |-> e.value, count |-> 1])
\* Logger.update_average(points)
RECURSIVE Accumulate(_, _)
Accumulate(acc, points) ==
  IF points = <<>> THEN acc
  ELSE Accumulate(AddValue(acc, Head(points)), Tail(points))

\* str(sum / count) for two ints: the shortest text that reads back as the
\* quotient
FloatText_truncated(sum, count) == <<Digit(sum \div count), ".", "0">>
FloatText(sum, count) ==
  LET whole == <<Digit(sum \div count), ".">>
      r == sum % count
      threes == [i \in 1..16 |-> "3"]
      sixes  == [i \in 1..15 |-> "6"] \o <<"7">>
  IN CASE r = 0 -> whole \o <<"0">>
       [] 2 * r = count -> whole \o <<"5">>
       [] 3 * r = count -> whole \o threes
       [] 3 * r = 2 * count -> whole \o sixes
       [] 4 * r = count -> whole \o <<"2", "5">>
       [] 4 * r = 3 * count -> whole \o <<"7", "5">>

\* the row of append() without points: the mean of every accumulated name
\* that is a column, NaN for the other columns
MeanRowLine(names, acc, t) ==
  get_timestamp(t) \o
  Concat([i \in 1..Len(names) |->
            <<Comma>> \o
            (IF \E k \in 1..Len(acc) : acc[k].name = names[i]
             THEN LET e == acc[CHOOSE k \in 1..Len(acc) : acc[k].name = names[i]]
                  IN FloatText(e.sum, e.count)
             ELSE NaN)]) \o
  <<NL>>

\* Logger.append() up to file.flush(), for points = self.average()
AverageCall(acc, names0, header0, isClosed, t) ==
  LET keys == [i \in 1..Len(acc) |-> acc[i].name]
      names1 == IF IsNone(names0) THEN Some(keys) ELSE names0
      ok(e)  == [err |-> e, stat_names |-> names1, wrote_header |-> header0,
                 out |-> <<>>]
  IN IF IsNone(names0) /\ ~(\A i \in 1..Len(keys) : ValidName(keys[i]))
       THEN ok("bad_name")
     ELSE IF ~IsNone(names0) /\ (\E i \in 1..Len(keys) :
                                   ~InSeq(keys[i], Get(names0)))
       THEN ok("unknown_stat")
     ELSE IF isClosed
       THEN ok("closed_file")
     ELSE [err |-> "none", stat_names |-> names1, wrote_header |-> TRUE,
           out |-> (IF header0 THEN <<>> ELSE HeaderLine(Get(names1)))
                   \o MeanRowLine(Get(names1), acc, t)]

\* Logger.update_average(points), lines 179-189
update_average ==
  /\ wpc = "idle"
  /\ nupdates < MaxUpdates
  /\ \E points \in AvgPoints : avg' = Accumulate(avg, points)
  /\ nupdates' = nupdates + 1
  /\ UNCHANGED last_avg
  /\ UNCHANGED <<writerVars, readerVars, expVars, metaVars, crawlVars, twinVars,
                 visVars, openVars, startVars>>

\* Logger.append() without points, lines 139-176: the means are taken, the
\* accumulator is reset, and the call goes on as append(points)
append_average ==
  /\ wpc = "idle"
  /\ ncalls < MaxAppends
  /\ \E t \in now..(IF now < MaxClock THEN now + 1 ELSE now) :
       LET r == AverageCall(avg, stat_names, wrote_header, closed, t)
       IN /\ stat_names' = r.stat_names
          /\ wrote_header' = r.wrote_header
          /\ buf' = buf \o r.out
          /\ last_avg' = [acc |-> avg, err |-> r.err, out |-> r.out]
          /\ written' = written \o r.out
          /\ wpc' = IF r.err = "none" THEN "flush" ELSE "idle"
          /\ now' = IF r.err = "none" THEN t ELSE now
  /\ avg' = <<>>
  /\ ncalls' = ncalls + 1
  /\ UNCHANGED <<arg_stat_names, disk, closed, last_call, returned,
                 returned_len, how_closed, diskAtClose, nupdates>>
  /\ UNCHANGED <<readerVars, expVars, metaVars, crawlVars, twinVars, visVars,
                 openVars, startVars>>

\* ------------------------------------------- Logger.__init__, resume=True
\* file.readlines(): the lines of the file, each with its line break
readlines(content) ==
  LET ps == Pieces(content)
  IN [k \in 1..(Len(ps) - 1) |-> ps[k] \o <<NL>>]
     \o (IF ps[Len(ps)] = <<>> THEN <<>> ELSE <<ps[Len(ps)]>>)

\* the type of what a file opened in the given mode yields, and the type of
\* the pattern r'(?<!\\),' that the lines are split with
OpenMode_text == "r"
OpenMode == "rb"
TypeOfLines(mode) == IF mode = "rb" THEN "bytes" ELSE "str"
TypeOfPattern == "str"

\* Logger._read_file, lines 293-325, on a stats.csv of the given content:
\* the error raised, the column names and the lines to write back
_read_file(content, ignore_empty) ==
  LET lines == readlines(content)
      fail(e) == [err |-> e, stat_names |-> <<>>, lines |-> None]
  IN IF lines = <<>>
       THEN IF ignore_empty THEN [err |-> "none", stat_names |-> <<>>,
                                  lines |-> None]
            ELSE fail("os_error")
     ELSE IF TypeOfLines(OpenMode) # TypeOfPattern
       THEN fail("type_error")
     ELSE LET names == SplitUnescaped(Strip(lines[1]))
              kept  == IF Strip(lines[Len(lines)]) = <<>>
                       THEN SubSeq(lines, 1, Len(lines) - 1) ELSE lines
          IN IF \E k \in 2..Len(kept) :
                  Len(SplitComma(Strip(kept[k]))) # Len(names)
               THEN fail("io_error")
             ELSE [err |-> "none", stat_names |-> names, lines |-> Some(kept)]

\* Logger(directory, unique=False, resume=True, stat_names=names) on the
\* directory of a session that is over: lines 53-137.  meta.json is written
\* anew before stats.csv is read; stats.csv is opened for writing, and so
\* emptied, only after _read_file and the comparison of the names.
resume_init ==
  /\ resume.pc = "none"
  /\ closed \/ wpc = "crashed"
  /\ \E names \in ArgStatNames,
        t \in now..(IF now < MaxClock THEN now + 1 ELSE now) :
       LET r        == _read_file(disk, TRUE)
           mismatch == r.err = "none" /\ ~IsNone(names)
                       /\ [k \in 1..Len(Get(names)) |-> Chars(Get(names)[k])]
                            # r.stat_names
           opened   == r.err = "none" /\ ~mismatch
           no_lines == opened /\ IsNone(r.lines)
       IN /\ now' = t
          /\ meta_json' = WriteMeta(MetaDict({}, TRUE, t))
          /\ disk' = IF opened THEN <<>> ELSE disk
          /\ resume' =
               [pc   |-> IF opened /\ ~no_lines THEN "open" ELSE "raised",
                err  |-> IF r.err # "none" THEN r.err
                         ELSE IF mismatch THEN "value_error"
                         ELSE IF no_lines THEN "type_error" ELSE "none",
                file |-> IF opened THEN "open" ELSE "none",
                stat_names |-> r.stat_names,
                buf  |-> IF opened /\ ~no_lines THEN Concat(Get(r.lines))
                         ELSE <<>>,
                before |-> disk]
  /\ UNCHANGED <<arg_stat_names, stat_names, wrote_header, buf, closed, wpc,
                 ncalls, last_call, written, returned, returned_len,
                 how_closed, diskAtClose>>
  /\ UNCHANGED <<save_timestamp, arg_meta, meta_torn, meta_partial, exp_meta,
                 epc, meta_before, edits>>
  /\ UNCHANGED <<readerVars, expVars, crawlVars, twinVars, visVars, avgVars,
                 startVars,
                 uclock, dirs, sessions>>

\* Logger.__del__ of the object whose constructor raised: _finish_write
\* writes the marker to self.file if that is an open file, and raises an
\* AttributeError, which the interpreter ignores, if self.file is None
resume_del ==
  /\ resume.pc = "raised"
  /\ disk' = IF resume.file = "open" THEN disk \o <<NL>> ELSE disk
  /\ resume' = [resume EXCEPT !.pc = "deleted",
                              !.file = IF resume.file = "open" THEN "closed"
                                       ELSE resume.file]
  /\ UNCHANGED <<arg_stat_names, stat_names, wrote_header, buf, closed, wpc,
                 now, ncalls, last_call, written, returned, returned_len,
                 how_closed, diskAtClose>>
  /\ UNCHANGED <<readerVars, expVars, metaVars, crawlVars, twinVars, visVars,
                 avgVars, startVars, uclock, dirs, sessions>>

\* ------------------------------------------- Logger.__init__, unique=True
RECURSIVE Replace(_, _, _)
\* str.replace(old, new)
Replace(s, old, new) ==
  IF Len(s) < Len(old) \/ s = <<>> THEN s
  ELSE IF SubSeq(s, 1, Len(old)) = old
    THEN new \o Replace(SubSeq(s, Len(old) + 1, Len(s)), old, new)
  ELSE <<s[1]>> \o Replace(Tail(s), old, new)

\* get_timestamp_folder(ts), lines 22-25
get_timestamp_folder(ts) ==
  Replace(Replace(Replace(Replace(ts, <<"+", "0", "0", ":", "0", "0">>, <<>>),
                          <<" ">>, <<"_">>),
                  <<".">>, <<"_">>),
          <<":">>, <<"-">>)

\* the directory argument of the sessions
BaseDirectory == <<"d">>
\* directory + '/' + get_timestamp_folder(timestamp)
UniqueDirectory(t) ==
  BaseDirectory \o <<"/">> \o get_timestamp_folder(get_timestamp(t))

Exists(path) == \E d \in dirs : d.path = path

\* a makedirs that takes an existing directory for its own
MakeDirs_exist_ok(path, s) ==
  [ok |-> TRUE, dirs |-> IF Exists(path) THEN dirs
                         ELSE dirs \cup {[path |-> path, maker |-> s,
                                          writers |-> {}]}]

\* os.makedirs(path, exist_ok=False) called by session s: the test for the
\* directory and its creation are one step; the call fails if it exists
MakeDirs(path, s) ==
  IF Exists(path) THEN [ok |-> FALSE, dirs |-> dirs]
  ELSE [ok |-> TRUE, dirs |-> dirs \cup {[path |-> path, maker |-> s,
                                           writers |-> {}]}]

\* somebody has read the present value of the clock
ClockRead ==
  \E s \in Sessions : sessions[s].pc # "new" /\ sessions[s].timestamp = uclock

\* time passes.  The clock counts the distinct values that are read: a value
\* that nobody read is not told apart from the one after it.
tick ==
  /\ uclock < MaxTicks
  /\ ClockRead
  /\ uclock' = uclock + 1
  /\ UNCHANGED <<resume, dirs, sessions>>
  /\ UNCHANGED <<writerVars, readerVars, expVars, metaVars, crawlVars,
                 twinVars, visVars, avgVars, startVars>>

\* Logger(directory, unique=True), lines 53-99: up to the while loop
unique_init(s) ==
  /\ sessions[s].pc = "new"
  /\ sessions' = [sessions EXCEPT ![s] =
                    [pc |-> "makedirs", timestamp |-> uclock,
                     directory |-> UniqueDirectory(uclock),
                     retried |-> FALSE]]
  /\ UNCHANGED <<resume, uclock, dirs>>
  /\ UNCHANGED <<writerVars, readerVars, expVars, metaVars, crawlVars,
                 twinVars, visVars, avgVars, startVars>>

\* lines 100-106: one os.makedirs call of the loop; EEXIST on a directory
\* leads to the sleep, success leaves the loop
makedirs(s) ==
  /\ sessions[s].pc = "makedirs"
  /\ LET m == MakeDirs(sessions[s].directory, s)
     IN /\ dirs' = m.dirs
        /\ sessions' = [sessions EXCEPT
                          ![s].pc = IF m.ok THEN "made" ELSE "sleep",
                          ![s].retried = sessions[s].retried \/ ~m.ok]
  /\ UNCHANGED <<resume, uclock>>
  /\ UNCHANGED <<writerVars, readerVars, expVars, metaVars, crawlVars,
                 twinVars, visVars, avgVars, startVars>>

\* lines 115-137, after the loop: meta.json and stats.csv are written in
\* self.directory
unique_open(s) ==
  /\ sessions[s].pc = "made"
  /\ dirs' = {IF d.path = sessions[s].directory
              THEN [d EXCEPT !.writers = @ \cup {s}] ELSE d : d \in dirs}
  /\ sessions' = [sessions EXCEPT ![s].pc = "open"]
  /\ UNCHANGED <<resume, uclock>>
  /\ UNCHANGED <<writerVars, readerVars, expVars, metaVars, crawlVars,
                 twinVars, visVars, avgVars, startVars>>

\* lines 109-111: after time.sleep(1e-5) a new time stamp and directory
retry(s) ==
  /\ sessions[s].pc = "sleep"
  /\ sessions' = [sessions EXCEPT
                    ![s].pc = "makedirs",
                    ![s].timestamp = uclock,
                    ![s].directory = UniqueDirectory(uclock)]
  /\ UNCHANGED <<resume, uclock, dirs>>
  /\ UNCHANGED <<writerVars, readerVars, expVars, metaVars, crawlVars,
                 twinVars, visVars, avgVars, startVars>>

\* ----------------------------- ExperimentReader.start_reading: meta.json
\* an except clause that catches nothing
MetaCaught_nothing(class) == FALSE

\* start_reading, line 199: except (IOError, FSError)
MetaCaught(class) == class \in {"IOError", "FSError"}

\* json.loads(self.fs.readtext('meta.json')), line 198: a missing file
\* raises ResourceNotFound, an FSError; a text that is not a whole JSON
\* object raises JSONDecodeError, a ValueError
LoadMeta(file, torn) ==
  IF IsNone(file) THEN [raised |-> "FSError", meta |-> {}]
  ELSE IF torn THEN [raised |-> "ValueError", meta |-> {}]
  ELSE [raised |-> "none", meta |-> Get(file)]

\* lines 202-208: a string that reads as an ISO date becomes a datetime,
\* every other value stays what json.loads made of it
FromIso(meta) ==
  {[key |-> e.key,
    value |-> [kind |-> IF IsTimestamp(e.value) THEN "datetime" ELSE "json",
               text |-> e.value]] : e \in meta}

\* ExperimentReader.start_reading, lines 195-214: up to the call of
\* read_data_slow or read_data_fast
start_reading ==
  /\ spc = "start"
  /\ rpc = "init"
  /\ LET r == LoadMeta(meta_json, meta_torn)
     IN IF r.raised # "none" /\ ~MetaCaught(r.raised)
        THEN /\ spc' = "raised"
             /\ UNCHANGED <<queue, meta_emitted>>
        ELSE LET sigs == (IF r.raised # "none" THEN <<Msg("meta", {})>>
                          ELSE <<>>)
                         \o <<Msg("meta", FromIso(r.meta))>>
             IN /\ spc' = "data"
                /\ queue' = queue \o sigs
                /\ meta_emitted' = meta_emitted \o sigs
  /\ UNCHANGED <<force_reopen_files, rpc, file_pos, line_start, old_size,
                 num_columns, num_rows, polls, seen, emitted, done_emitted,
                 logged, escaped>>
  /\ UNCHANGED <<writerVars, expVars, metaVars, crawlVars, twinVars, visVars,
                 avgVars, openVars>>

\* the polling loop that start_reading calls, lines 215-219
started_read_data_fast == spc = "data" /\ read_data_fast
started_read_data_slow == spc = "data" /\ read_data_slow

\* Experiment.on_meta_ready
on_meta_ready ==
  /\ queue # <<>> /\ Head(queue).type = "meta"
  /\ exp_meta' = Head(queue).payload
  /\ queue' = Tail(queue)
  /\ UNCHANGED <<force_reopen_files, rpc, file_pos, line_start, old_size,
                 num_columns, num_rows, polls, seen, emitted, done_emitted,
                 logged, escaped>>
  /\ UNCHANGED <<save_timestamp, arg_meta, meta_json, meta_torn, meta_partial,
                 epc, meta_before, edits>>
  /\ UNCHANGED <<writerVars, expVars, crawlVars, twinVars, visVars,
                 sessionVars>>

\* ------------------------------------------------------- specifications
Init ==
  /\ LoggerInit /\ ReaderInit /\ ExperimentInit /\ DefaultMeta /\ NoCrawler
  /\ TwinInit /\ NoVis

\* one session of the Logger
Next == append \/ spill \/ append_flush \/ crash \/ __exit__ \/ __del__
Spec == Init /\ [][Next]_vars

\* one run, written by a Logger and tailed by an ExperimentReader
InitTail == Init /\ arg_stat_names = None
NextTail ==
  \/ tail_append \/ spill \/ append_flush \/ crash \/ __exit__ \/ __del__
  \/ read_data_fast \/ read_data_slow
  \/ on_header_ready \/ on_data_ready \/ on_done
SpecTail == InitTail /\ [][NextTail]_vars

\* one session whose caller goes on after a failed append
NextRetry == retry_append \/ spill \/ append_flush \/ crash \/ __exit__ \/ __del__
SpecRetry == Init /\ [][NextRetry]_vars

\* one session, opened with any of the metadata arguments
InitMeta ==
  /\ LoggerInit /\ arg_stat_names = None
  /\ ReaderInit /\ ~force_reopen_files
  /\ ExperimentInit
  /\ MetaInit
  /\ NoCrawler
  /\ TwinInit
  /\ NoVis
SpecMeta == InitMeta /\ [][Next]_vars

\* a stats.csv written line by line by another program, and its reader
InitFile ==
  /\ NoLogger /\ ReaderInit /\ ExperimentInit /\ DefaultMeta /\ NoCrawler
  /\ TwinInit /\ NoVis
NextFile ==
  \/ foreign_append
  \/ read_data_fast \/ read_data_slow
  \/ on_header_ready \/ on_data_ready \/ on_done
SpecFile == InitFile /\ [][NextFile]_vars

\* one run tailed by two readers, one with each polling strategy; the
\* signals of the first reader are left in its queue
InitTwin == Init /\ arg_stat_names = None /\ ~force_reopen_files
NextTwin ==
  \/ tail_append \/ spill \/ append_flush \/ crash \/ __exit__ \/ __del__
  \/ read_data_fast \/ twin_read_data_slow
SpecTwin == InitTwin /\ [][NextTwin]_vars

\* Two runs under the base folder, the crawler, the coordinator and the
\* readers it starts.  Run 1 is well formed, finished or not; run 2 has a
\* malformed row, first or after a good one.  A reader runs once
\* on_experiments_ready has created the Experiment of its run.
GoodFiles ==
  LET rows == ForeignHeader \o <<NL>> \o get_timestamp(0) \o <<Comma, "1", NL>>
  IN {rows, rows \o <<NL>>}
BadFiles ==
  LET row == get_timestamp(0) \o <<Comma, "1", NL>>
      bad == get_timestamp(0) \o <<NL>>
  IN {ForeignHeader \o <<NL>> \o bad, ForeignHeader \o <<NL>> \o row \o bad}

exp1_read == 1 \in exps /\ (read_data_fast \/ read_data_slow)
exp2_read == 2 \in exps /\ twin_read_data_slow

InitRuns ==
  /\ \E content \in GoodFiles : WrittenElsewhere(content)
  /\ ReaderInit /\ ExperimentInit /\ DefaultMeta
  /\ CrawlerInit /\ present = {1, 2}
  /\ twin = TwinStart
  /\ twin_disk \in {Some(content) : content \in BadFiles}
  /\ NoVis
NextRuns ==
  \/ add_run \/ crawl_visit \/ crawl_walk_end \/ crawl_wake
  \/ on_experiments_ready
  \/ exp1_read \/ exp2_read
  \/ on_header_ready \/ on_data_ready \/ on_done
SpecRuns == InitRuns /\ [][NextRuns]_vars

\* the crawler and the coordinator, with runs appearing under the base folder
InitCrawl ==
  /\ LoggerInit /\ arg_stat_names = None
  /\ ReaderInit /\ ~force_reopen_files
  /\ ExperimentInit
  /\ DefaultMeta
  /\ CrawlerInit
  /\ TwinInit
  /\ NoVis
NextCrawl ==
  add_run \/ crawl_visit \/ crawl_walk_end \/ crawl_wake \/ on_experiments_ready
SpecCrawl == InitCrawl /\ [][NextCrawl]_vars

\* the visualizations of one run, logged with either package
InitVis ==
  /\ LoggerInit /\ arg_stat_names = None
  /\ ReaderInit /\ ~force_reopen_files
  /\ ExperimentInit
  /\ DefaultMeta
  /\ NoCrawler
  /\ TwinInit
  /\ VisInit
NextVis == edit_script \/ visualize \/ visualize_saved \/ visualize_index
SpecVis == InitVis /\ [][NextVis]_vars

\* the visualizations of one run, logged with overboard_logger, and the
\* loader that polls them
InitLoad == InitVis /\ ~index_layout
NextLoad == polled_visualize \/ visualize_saved \/ select_folder \/ poll
SpecLoad == InitLoad /\ [][NextLoad]_vars

\* the same run logging tensors of one size with two contents
NextLatest == resized_visualize \/ visualize_saved \/ select_folder \/ poll
SpecLatest == InitLoad /\ [][NextLatest]_vars

\* the metadata of one run, written by the Logger with any of the metadata
\* arguments, and the observer that edits its notes
NextEdit ==
  read_meta \/ table_edit \/ table_edit_dumped \/ table_edit_replace
  \/ observer_crash
SpecEdit == InitMeta /\ [][NextEdit]_vars

\* one session of the Logger of overboard_logger whose caller goes on
\* calling visualize after the session is closed
closed_visualize == closed /\ vis_ncalls < MaxClosedCalls /\ visualize
NextClosed ==
  \/ append \/ spill \/ append_flush \/ __exit__ \/ __del__
  \/ closed_visualize \/ visualize_saved
SpecClosed == InitTail /\ [][NextClosed]_vars

\* one session whose caller logs averages only
NextAverage ==
  update_average \/ append_average \/ spill \/ append_flush \/ __exit__
SpecAverage == InitTail /\ [][NextAverage]_vars

\* one run whose session is over, and a session that resumes it
NextResume ==
  \/ tail_append \/ spill \/ append_flush \/ crash \/ __exit__ \/ __del__
  \/ resume_init \/ resume_del
SpecResume == InitTail /\ [][NextResume]_vars

\* sessions opened with unique=True on one base directory, each a process
\* that goes on running, and a clock that goes on
NextUnique ==
  \/ tick
  \/ \E s \in Sessions :
       unique_init(s) \/ makedirs(s) \/ retry(s) \/ unique_open(s)
SpecUnique ==
  /\ InitTail /\ [][NextUnique]_vars
  /\ WF_vars(tick)
  /\ \A s \in Sessions : WF_vars(makedirs(s) \/ retry(s) \/ unique_open(s))

\* one run, written with any of the metadata arguments, and its reader from
\* the start of start_reading, with either strategy
InitStart ==
  /\ LoggerInit /\ arg_stat_names = None
  /\ ReaderInit
  /\ ExperimentInit
  /\ MetaInit
  /\ NoCrawler
  /\ TwinInit
  /\ NoVis
NextStart ==
  \/ tail_append \/ append_flush \/ __exit__
  \/ start_reading \/ started_read_data_fast \/ started_read_data_slow
  \/ on_meta_ready \/ on_header_ready \/ on_data_ready \/ on_done
SpecStart == InitStart /\ [][NextStart]_vars

\* the visualizations of one run, the loader that polls them and the
\* coordinator that selects the run and shows what the loader delivers
NextPanels ==
  \/ polled_visualize \/ visualize_saved
  \/ select \/ select_folder_slot \/ poll_emit \/ on_visualization_ready
SpecPanels == InitLoad /\ [][NextPanels]_vars

\* ------------------------------------------------- what a check refers to
\* the part of stats.csv the reader had before it at its latest read_lines
Seen == SubSeq(disk, 1, seen)

\* the terminated lines after the header and before the first empty line:
\* the data lines of a file
RECURSIVE UntilEmpty(_)
UntilEmpty(lines) ==
  IF lines = <<>> \/ Head(lines) = <<>> THEN <<>>
  ELSE <<Head(lines)>> \o UntilEmpty(Tail(lines))
DataLines(content) ==
  LET lines == CompleteLines(content)
  IN IF lines = <<>> THEN <<>> ELSE UntilEmpty(Tail(lines))

\* the rows the consumer holds, read back out of its columns
NumDelivered == IF data = <<>> THEN 0 ELSE Len(data[1])
Delivered(k) == [j \in 1..Len(data) |-> data[j][k]]

\* the reader will make no further read: it is done, or it failed
ReaderStopped == rpc \in {"done", "error"}

\* ------------------------------------------------------------------- C1
\* C1: once the file is complete (the session is closed) and the reader has
\* read it to its end or has stopped polling, the rows emitted over all polls
\* are the rows that one read_lines call on the complete file emits.
C1_ChunkedEqualsWhole ==
  (closed /\ (ReaderStopped \/ (rpc = "sleep" /\ seen = Len(disk))))
    => emitted = read_lines(disk, 0, None, 0).rows

\* ------------------------------------------------------------------- C2
\* C2: when the reader's latest read met a line without its terminator, that
\* line was not emitted, the resume position is the start of that line, and
\* the reader goes on polling (so that the completed line is emitted later).
C2_PartialLineWaits ==
  (rpc \in {"sleep", "done"} /\ PartialLine(Seen) # <<>>)
    => /\ rpc = "sleep"
       /\ Get(line_start) = seen - Len(PartialLine(Seen))
       /\ Len(emitted) = Len(DataLines(Seen))

\* ------------------------------------------------------------------- C3
\* C3: done is reported only when the line at the resume position is a line
\* terminator and nothing else.
C3_DoneOnlyOnBareTerminator ==
  done_emitted > 0 => readline(Seen, Get(line_start)) = <<NL>>

\* ------------------------------------------------------------------- C4
\* C4: at every moment, under any interleaving of the writer and the reader,
\* the rows the consumer holds are the first data lines of the file, in file
\* order, each once, the k-th with the implicit index k-1; all columns have
\* the same length.
C4_DeliveredIsPrefix ==
  LET lines == DataLines(disk)
  IN /\ \A j \in 1..Len(data) : Len(data[j]) = NumDelivered
     /\ NumDelivered <= Len(lines)
     /\ \A k \in 1..NumDelivered :
          Delivered(k) = ParseRow(lines[k] \o <<NL>>, k - 1)

\* two rows with different time stamps reached the consumer in two batches
C4_Witness ==
  /\ NumDelivered = 2
  /\ data[2][1] # data[2][2]
  /\ polls >= 2
  /\ Len(emitted) = 2
  /\ queue = <<>>

\* ------------------------------------------------------------------- C5
\* C5: a reader that met the completion marker reports done, and from then on
\* it makes no poll and emits no row or second done; once the consumer was
\* told done, its data never changes.
C5_NoPollAfterDone ==
  [][ /\ (rpc = "sleep" /\ ~IsNone(line_start))
           => readline(Seen, Get(line_start)) # <<NL>>
      /\ done_emitted > 0 =>
           /\ rpc = "done"
           /\ UNCHANGED <<rpc, polls, seen, emitted, done_emitted, num_rows,
                          line_start, file_pos>>
      /\ exp_done => UNCHANGED <<data, metrics>> ]_vars

\* the consumer was told done after a row, and the marker is a real one
C5_Witness ==
  /\ exp_done
  /\ NumDelivered >= 1
  /\ closed
  /\ queue = <<>>
  /\ readline(disk, Get(line_start)) = <<NL>>

\* ------------------------------------------------------------------- C6
\* the column list of the session: self.stat_names once it is set, and until
\* then the list given to the constructor
ColumnList == IF ~IsNone(stat_names) THEN stat_names ELSE arg_stat_names

\* the terminated, non-empty lines after the first line of stats.csv
RowsOnDisk ==
  LET lines == CompleteLines(disk)
  IN IF lines = <<>> THEN <<>>
     ELSE SelectSeq(Tail(lines), LAMBDA l : l # <<>>)

\* C6: every data row in stats.csv has 1 + len(column list) comma-separated
\* fields, as many as the header row.
C6_RowsMatchHeader ==
  \A k \in 1..Len(RowsOnDisk) :
    /\ NumFields(RowsOnDisk[k]) = 1 + Len(Get(stat_names))
    /\ NumFields(RowsOnDisk[k]) = NumFields(CompleteLines(disk)[1])

\* ------------------------------------------------------------------- C7
\* C7: once the column list is established (given at open, or inferred from
\* the first append) it never changes, and an append that names a column
\* outside it raises the unknown-column error.
C7_ColumnListFrozen ==
  [][ ~IsNone(ColumnList) =>
        /\ ColumnList' = ColumnList
        /\ ncalls' = ncalls + 1 =>
             ((\E i \in 1..Len(last_call'.points) :
                  ~InSeq(last_call'.points[i].name, Get(ColumnList)))
              => last_call'.err = "unknown_stat") ]_vars

\* ------------------------------------------------------------------- C8
\* the arguments of a valid append: comma-free names of the column list
ValidPoints(points, names) ==
  \A i \in 1..Len(points) :
    ValidName(points[i].name) /\ InSeq(points[i].name, names)

\* the characters make up one terminated row for points: the time stamp,
\* then for every column the value given or NaN
IsRowFor(chars, points, names) ==
  /\ Len(chars) > 0 /\ chars[Len(chars)] = NL
  /\ Len(CompleteLines(chars)) = 1
  /\ LET fields == SplitComma(CompleteLines(chars)[1])
     IN /\ Len(fields) = 1 + Len(names)
        /\ IsTimestamp(fields[1])
        /\ \A i \in 1..Len(names) :
             fields[i + 1] = IF InSeq(names[i], Keys(points))
                             THEN Str(Lookup(points, names[i])) ELSE NaN

\* C8: an append that raises the unknown-column error writes nothing and
\* leaves the column list and the header-written flag as they were; the
\* valid append that follows it on the open session succeeds and writes
\* (after the header, if that is still to be written) exactly one row.
C8_UnknownStatIsLocal ==
  [][ ncalls' = ncalls + 1 =>
        LET c == last_call'
        IN /\ c.err = "unknown_stat" =>
                /\ c.out = <<>>
                /\ UNCHANGED <<disk, buf, written, stat_names, wrote_header,
                               wpc, closed>>
           /\ ( /\ last_call.err = "unknown_stat"
                /\ ~closed
                /\ ValidPoints(c.points, Get(stat_names)) ) =>
                /\ c.err = "none"
                /\ stat_names' = stat_names
                /\ buf' = c.out
                /\ \E h \in {<<>>, HeaderLine(Get(stat_names))} :
                     /\ (h = <<>>) <=> wrote_header
                     /\ IsPrefix(h, c.out)
                     /\ IsRowFor(SubSeq(c.out, Len(h) + 1, Len(c.out)),
                                 c.points, Get(stat_names)) ]_vars

\* an append raised the unknown-column error, the next one succeeded and
\* its row is in the file
C8_Witness ==
  /\ last_call.prev_err = "unknown_stat"
  /\ last_call.err = "none"
  /\ last_call.points # <<>>
  /\ wpc = "idle"
  /\ returned = 2
  /\ IsPrefix(written, disk)

\* ------------------------------------------------------------------- C9
\* C9: at every moment, crash or not, stats.csv starts with everything that
\* had been written when the latest append returned; what follows is a part
\* of what the one append in progress wrote; between appends nothing is left
\* in the buffer.
C9_ReturnedRowsOnDisk ==
  /\ IsPrefix(SubSeq(written, 1, returned_len), disk)
  /\ ~closed => IsPrefix(disk, written)
  /\ Len(CompleteLines(SubSeq(written, returned_len + 1, Len(written)))) <= 2
  /\ Len(RowsOnDisk) \in {returned, returned + 1}
  /\ wpc = "idle" => (buf = <<>> /\ returned_len = Len(written)
                                /\ Len(RowsOnDisk) = returned)

\* the writer crashed inside its second append, which left half a row
C9_Witness ==
  /\ wpc = "crashed"
  /\ returned >= 1
  /\ returned_len < Len(written)
  /\ PartialLine(disk) # <<>>

\* ------------------------------------------------------------------ C10
\* C10: however often and by whichever of __exit__ and __del__ the session
\* is closed, stats.csv is what it was before the first close followed by
\* one empty line.
C10_CloseIdempotent ==
  how_closed # <<>> =>
    /\ closed
    /\ disk = diskAtClose \o <<NL>>
    /\ diskAtClose = written

\* closed by __exit__ and then by __del__, after a row was written
C10_Witness ==
  /\ how_closed = <<"exit", "del">>
  /\ returned >= 1

\* ------------------------------------------------------------------ C11
\* the names under which a completion flag may be stored
FlagKeys == {"finished", "_done"}
HasFlag(dict, text) ==
  \E e \in dict : e.key \in FlagKeys /\ e.value = text

\* C11: meta.json always exists and holds a completion flag; the flag is
\* false while the session is open and true once it was closed, when the
\* completion marker is in stats.csv as well.
C11_FinishedFlag ==
  /\ ~IsNone(meta_json)
  /\ ~closed => HasFlag(Get(meta_json), <<"f", "a", "l", "s", "e">>)
  /\ closed => /\ HasFlag(Get(meta_json), <<"t", "r", "u", "e">>)
               /\ disk = diskAtClose \o <<NL>>

\* ------------------------------------------------------------------ C12
\* C12: whenever stats.csv holds a header or a row, meta.json exists and
\* holds the whole of the session's metadata.
C12_MetaBeforeRows ==
  (\E k \in 1..Len(CompleteLines(disk)) : CompleteLines(disk)[k] # <<>>) =>
    /\ ~IsNone(meta_json)
    /\ Get(meta_json) = MetaDict(arg_meta, save_timestamp, 0)

\* ------------------------------------------------------------------ C13
\* how often x occurs in a list
RECURSIVE Count(_, _)
Count(x, list) ==
  IF list = <<>> THEN 0
  ELSE (IF Head(list) = x THEN 1 ELSE 0) + Count(x, Tail(list))

\* C13: no path is ever emitted twice, whenever the batches were flushed,
\* and the coordinator creates one Experiment per path; when a walk is over,
\* every file that was there when it began has been emitted; what the
\* crawler remembers is what it emitted.
C13_ReportedOnce ==
  /\ \A r \in RunPaths : Count(r, reported) <= 1 /\ Count(r, started) <= 1
  /\ SetOf(reported) = known_files
  /\ SetOf(reported) \subseteq present
  /\ SetOf(started) \cup UNION {SetOf(ready_queue[i]) : i \in 1..Len(ready_queue)}
       = SetOf(reported)
  /\ exps = SetOf(started)
  /\ cpc = "sleep" => at_walk_start \subseteq SetOf(reported)

\* in a later walk, a run that appeared behind the crawler's back has just
\* been emitted by a flush in the middle of the walk, after the runs that
\* an earlier walk reported
C13_Witness ==
  /\ walks >= 1 /\ cpc = "walk"
  /\ 0 < cursor /\ cursor < MaxRuns
  /\ new_files = <<>>
  /\ Len(reported) >= 2
  /\ reported[Len(reported)] = cursor
  /\ reported[1] > cursor
  /\ Len(started) >= 1

\* ------------------------------------------------------------------ C14
\* the header signals among the signals emitted
Headers(signals) == SelectSeq(signals, LAMBDA m : m.type = "header")

\* C14: when the session is closed and both readers have stopped or have
\* read the file to its end, the reader that keeps the file open and the
\* reader that reopens it have emitted the same header, the same rows in
\* the same order, and done as often.
C14_StrategiesAgree ==
  ( /\ closed
    /\ ReaderStopped \/ (rpc = "sleep" /\ seen = Len(disk))
    /\ twin.rpc \in {"done", "error"}
         \/ (twin.rpc = "sleep" /\ twin.seen = Len(disk)) )
  => /\ Headers(queue) = Headers(twin.signals)
     /\ emitted = twin.emitted
     /\ done_emitted = twin.done_emitted
     /\ (rpc = "error") <=> (twin.rpc = "error")

\* ------------------------------------------------------------------ C15
\* C15: once the session is closed, a reader that has not stopped has not
\* yet read the file to its end (so its next poll reads on), and a reader
\* that has stopped has emitted done, once, and before it every row that
\* an append wrote.  A stopped reader takes no further step, so a state
\* that breaks this is one that no scheduling repairs.
C15_ReaderFinishes ==
  closed =>
    /\ rpc = "sleep" => seen < Len(disk)
    /\ ReaderStopped =>
         /\ rpc = "done"
         /\ done_emitted = 1
         /\ Len(emitted) = returned

\* ------------------------------------------------------------------ C16
\* the terminated lines of a file whose field count differs from the
\* header's and that come before any empty line: the malformed lines
Malformed(content) ==
  LET lines == CompleteLines(content)
  IN {k \in 2..Len(lines) :
        /\ \A j \in 1..k : lines[j] # <<>>
        /\ 1 + NumFields(lines[k]) # Len(ParseHeader(lines[1] \o <<NL>>))}

\* C16: once the reader has read a file with a malformed line, it is in the
\* error state, the error was logged exactly once, no row from the malformed
\* line on was emitted and done was not; the error is logged only for such
\* a line; and a reader in the error state reads, emits and logs no more.
C16_MalformedLineIsError ==
  [][ LET bad == Malformed(SubSeq(disk', 1, seen'))
      IN /\ bad # {} =>
              /\ rpc' = "error"
              /\ logged' = 1
              /\ done_emitted' = 0
              /\ \A k \in bad : Len(emitted') < k - 1
         /\ logged' <= 1
         /\ (rpc' = "error") <=> (logged' = 1 /\ bad # {})
         /\ rpc = "error" =>
              UNCHANGED <<rpc, polls, seen, emitted, done_emitted, logged,
                          escaped, num_rows, line_start>> ]_vars

C18_ConflictOverwritesNothing ==
  [][ /\ ( /\ vis_call' # vis_call
           /\ vis_call'.name \in VisNames
           /\ ~IsNone(vis_functions[vis_call'.name])
           /\ Get(vis_functions[vis_call'.name]).func # vis_call'.func )
         => vis_call'.result = "IdentityConflict"
      /\ vis_call'.result = "IdentityConflict"
         => UNCHANGED <<vis_files, vis_sources, vis_functions, vis_index>>
      /\ \A n \in VisNames :
           ~IsNone(vis_functions[n]) =>
             /\ vis_functions'[n] = vis_functions[n]
             /\ vis_sources'[n] = vis_sources[n] ]_vars
\* a call under a name that holds a payload and a source frozen before the
\* script was edited has failed with the identity conflict
C18_Witness ==
  /\ vis_call.result = "IdentityConflict"
  /\ vis_call.func = "tensor"
  /\ script = "v2"
  /\ vis_sources[vis_call.name] = Some("v1")
  /\ ~IsNone(vis_files[vis_call.name])
  /\ Complete(Get(vis_files[vis_call.name]))

\* the file that observers poll for the latest call
PolledSize ==
  IF index_layout THEN Len(vis_index)
  ELSE FileSize(Get(vis_files[vis_call.name]))
\* C19: when a visualize call has succeeded, the size of the polled file (the
\* index file, or the payload file of the name) differs from the size it had
\* after its previous update.
C19_SizeChanges ==
  (vis_call.result = "ok" /\ ~IsNone(vis_call.before)) =>
    PolledSize # Get(vis_call.before)
\* a call that repeated the arguments of the call before it has succeeded
C19_Witness ==
  /\ ~index_layout
  /\ vis_call.result = "ok"
  /\ ~IsNone(vis_call.before)
  /\ Get(vis_files[vis_call.name]).pad = 1

\* C20: the poll after one whose load failed with the size mismatch attempts
\* to load the same entry again; that failure is not logged and emits no
\* signal.
C20_RetrySameEntry ==
  [][ /\ ( /\ last_tick.result = "wrong_size"
           /\ last_tick' # last_tick
           /\ selects' = selects )
         => /\ last_tick'.entry = last_tick.entry
            /\ last_tick'.result \in {"ok", "wrong_size", "other"}
      /\ last_tick'.result = "wrong_size"
         => /\ vis_logged' = vis_logged
            /\ ready_count' = ready_count ]_vars

\* C21: a load that fails otherwise than with the size mismatch is logged once
\* and emits nothing; the entry is not kept for a retry, the timer is armed
\* again, the entries not yet visited stay in the iterator, and the next tick
\* takes one of them (or finds the listing finished).
C21_OtherFailureSkipsOne ==
  [][ /\ ( /\ last_tick' # last_tick
           /\ last_tick'.result = "other" )
         => /\ vis_logged' = vis_logged + 1
            /\ ready_count' = ready_count
            /\ loader'.timer = "armed"
            /\ IsNone(loader'.retry_file)
            /\ ~IsNone(loader'.files_iterator)
            /\ Get(loader'.files_iterator) =
                 (IF IsNone(loader.files_iterator) THEN Listing(last_tick'.folder)
                  ELSE Get(loader.files_iterator)) \ {Get(last_tick'.entry).name}
      /\ ( /\ last_tick.result = "other"
           /\ last_tick' # last_tick
           /\ selects' = selects )
         => IF Get(loader.files_iterator) = {}
            THEN last_tick'.result = "idle"
            ELSE /\ ~IsNone(last_tick'.entry)
                 /\ Get(last_tick'.entry).name \in Get(loader.files_iterator)
                 /\ last_tick'.result # "idle" ]_vars
\* after a logged failure on one payload the other payload of the folder was
\* loaded
C21_Witness ==
  /\ vis_logged = 1
  /\ last_tick.result = "ok"
  /\ last_tick.folder = "run1"
  /\ \A n \in VisNames : ~IsNone(loader.known_file_sizes[n])
  /\ loader.timer = "armed"

\* C22: once select_folder has run, the loader holds no open folder, iterator
\* or retry entry of the earlier selection and its timer is armed; every poll
\* since then read the folder selected last.
C22_SelectStopsPrevious ==
  [][ /\ selects' # selects
         => /\ loader'.timer = "armed"
            /\ IsNone(loader'.fs)
            /\ IsNone(loader'.files_iterator)
            /\ IsNone(loader'.retry_file)
            /\ \A n \in VisNames : IsNone(loader'.known_file_sizes[n])
      /\ ~IsNone(loader'.fs) => Get(loader'.fs) = loader'.base_folder
      /\ last_tick'.folder # "" => last_tick'.folder = loader'.base_folder ]_vars
\* the other run was selected after a payload of the first had failed to
\* load, and its payload was loaded
C22_Witness ==
  /\ selects = 2
  /\ vis_logged >= 1
  /\ loader.base_folder = "run2"
  /\ last_tick.result = "ok"
  /\ last_tick.folder = "run2"

\* C23: from the moment an edit of the notes begins, meta.json is never a
\* part of a text, and it holds the object it held when the edit began or the
\* edited object, also after the observer has died at any step.
C23_MetaReplacedWhole ==
  /\ ~meta_torn
  /\ edits > 0 => meta_json \in {meta_before, Some(exp_meta)}
  /\ epc \in {"opened", "dumped"} => meta_json = meta_before
\* the observer has died between json.dump and os.replace of its second edit
C23_Witness ==
  /\ epc = "crashed"
  /\ edits = 2
  /\ ~IsNone(meta_partial)
  /\ ~IsNone(meta_json)
  /\ meta_json = meta_before
  /\ NotesOf(Get(meta_json)) # <<>>
  /\ NotesOf(Get(meta_json)) # NotesOf(exp_meta)

\* C24: once the session is closed, no step changes stats.csv, meta.json, a
\* payload file or a frozen source.
C24_ClosedRunIsImmutable ==
  [][closed => UNCHANGED <<disk, meta_json, vis_files, vis_sources>>]_vars
\* the same, for stats.csv and meta.json alone
MetricsImmutable ==
  [][closed => UNCHANGED <<disk, meta_json>>]_vars

\* the decimal text of the mean sum / count, for the sums and counts that
\* MaxUpdates and AvgValues allow
MeanText(sum, count) ==
  CASE sum = count     -> <<"1", ".", "0">>
    [] sum = 2 * count -> <<"2", ".", "0">>
    [] 2 * sum = 3 * count -> <<"1", ".", "5">>
    [] 3 * sum = 4 * count ->
         <<"1", ".", "3", "3", "3", "3", "3", "3", "3", "3", "3", "3", "3", "3",
           "3", "3", "3", "3">>
    [] 3 * sum = 5 * count ->
         <<"1", ".", "6", "6", "6", "6", "6", "6", "6", "6", "6", "6", "6", "6",
           "6", "6", "6", "7">>
    [] 4 * sum = 5 * count -> <<"1", ".", "2", "5">>
    [] 4 * sum = 7 * count -> <<"1", ".", "7", "5">>
\* the row written last by the call has, for every name of the accumulator,
\* the mean in the column of that name
MeansWritten(call, names) ==
  LET lines == CompleteLines(call.out)
      fields == SplitComma(lines[Len(lines)])
  IN /\ lines # <<>>
     /\ Len(fields) = 1 + Len(names)
     /\ \A k \in 1..Len(call.acc) :
          \E c \in 1..Len(names) :
            /\ names[c] = call.acc[k].name
            /\ fields[c + 1] = MeanText(call.acc[k].sum, call.acc[k].count)

\* C25 as stated: every append() without points writes a row with the mean of
\* every accumulated name and empties the accumulator; update_average
\* writes nothing.
C25_AverageRowWritten ==
  [][ /\ last_avg' # last_avg
         => /\ last_avg'.err = "none"
            /\ MeansWritten(last_avg', Get(stat_names'))
            /\ avg' = <<>>
      /\ nupdates' # nupdates => UNCHANGED <<disk, buf, written>> ]_vars
\* C25 amended: an append() without points that raises no error writes a row
\* with the mean of every accumulated name; one that raises writes nothing;
\* either way the accumulator is emptied; update_average writes nothing.
C25_AverageRowUnlessRaised ==
  [][ /\ last_avg' # last_avg
         => /\ last_avg'.err = "none"
               => MeansWritten(last_avg', Get(stat_names'))
            /\ last_avg'.err # "none"
               => /\ last_avg'.out = <<>>
                  /\ UNCHANGED <<disk, buf, written>>
            /\ avg' = <<>>
      /\ nupdates' # nupdates => UNCHANGED <<disk, buf, written>> ]_vars
\* a row with the mean 1.5 of the two values of one name has been written
\* and flushed
C25_Witness ==
  /\ last_avg.err = "none"
  /\ \E k \in 1..Len(last_avg.acc) :
       last_avg.acc[k].sum = 3 /\ last_avg.acc[k].count = 2
  /\ avg = <<>>
  /\ wpc = "idle"
  /\ buf = <<>>

\* ------------------------------------------------------------------ C26
\* the row that a reader starting at the top of the file parses last holds,
\* after the row number and the time, the value given for every column that
\* points names and the NaN sentinel for every other column
ReadsBack(content, points, names) ==
  LET r == read_lines(content, 0, None, 0)
  IN /\ ~r.err
     /\ r.rows # <<>>
     /\ LET row == r.rows[Len(r.rows)]
        IN /\ Len(row) = 2 + Len(names)
           /\ \A i \in 1..Len(names) :
                row[i + 2] =
                  [kind |-> "float",
                   text |-> IF InSeq(names[i], Keys(points))
                            THEN Str(Lookup(points, names[i])) ELSE NaN]

\* C26: when an append that names only columns of the session returns,
\* read_lines over stats.csv yields its row with NaN in exactly the columns
\* it omitted and the values it gave in the others.
C26_SubsetReadsBackNaN ==
  [][ returned' = returned + 1 =>
        ReadsBack(disk', last_call.points, Get(stat_names)) ]_vars

\* the same for sessions whose column list is not empty and holds no name
\* with a comma
ReadsBackForValidColumns ==
  [][ ( /\ returned' = returned + 1
        /\ Get(stat_names) # <<>>
        /\ \A i \in 1..Len(Get(stat_names)) : ValidName(Get(stat_names)[i]) )
      => ReadsBack(disk', last_call.points, Get(stat_names)) ]_vars

\* ------------------------------------------------------------------ C27
\* C27: when stat_names is passed to the constructor, the header written to
\* stats.csv lists exactly those columns after the time column, the column
\* list of the session is that list from the start, and a first append that
\* names only some of them writes NaN for the others.
C27_ConstructorColumnsFrozen ==
  ~IsNone(arg_stat_names) =>
    /\ ~IsNone(stat_names) => stat_names = arg_stat_names
    /\ wrote_header => IsPrefix(HeaderLine(Get(arg_stat_names)), written)
    /\ (ncalls = 1 /\ last_call.err = "none") =>
         IsRowFor(SubSeq(written, Len(HeaderLine(Get(arg_stat_names))) + 1,
                         Len(written)),
                  last_call.points, Get(arg_stat_names))

\* ------------------------------------------------------------------ C28
\* the clock reading that a time stamp renders
TimeOf(stamp) == CHOOSE t \in 0..9 : get_timestamp(t) = stamp

\* the first field of every row written by the session, in file order
FirstFields ==
  LET lines == CompleteLines(written)
  IN IF lines = <<>> THEN <<>>
     ELSE [k \in 1..(Len(lines) - 1) |-> SplitComma(lines[k + 1])[1]]

\* C28: within one session the first field of every row written is strictly
\* greater than the first field of the row written before it.
C28_FirstFieldIncreases ==
  \A k \in 2..Len(FirstFields) :
    TimeOf(FirstFields[k]) > TimeOf(FirstFields[k - 1])

\* ------------------------------------------------------------------ C29
\* the lines of a log that a resumed session is to keep: all terminated
\* lines but the completion marker
LinesToKeep(content) ==
  LET lines == CompleteLines(content)
  IN IF lines # <<>> /\ Strip(lines[Len(lines)]) = <<>>
     THEN SubSeq(lines, 1, Len(lines) - 1) ELSE lines

\* C29: a session opened with resume=True on a log that has a header is
\* open afterwards; the file holds the header and the rows it held, in their
\* order, and no completion marker; the column list of the session has as
\* many names as the header has fields after the time, so that the rows
\* appended have the field count of the header.
C29_ResumeKeepsLog ==
  (resume.pc # "none" /\ LinesToKeep(resume.before) # <<>>) =>
    /\ resume.pc = "open"
    /\ resume.err = "none"
    /\ CompleteLines(disk \o resume.buf) = LinesToKeep(resume.before)
    /\ 1 + Len(resume.stat_names) = NumFields(LinesToKeep(resume.before)[1])

\* ------------------------------------------------------------------ C30
\* the session has left the loop around makedirs
LeftLoop(s) == sessions[s].pc \in {"made", "open"}

\* no two sessions have the same run directory, the directory of a session
\* was created by its own makedirs call, and no directory is written to by
\* two sessions
DirectoriesDistinct ==
  /\ \A s, t \in Sessions :
       (s # t /\ LeftLoop(s) /\ LeftLoop(t))
         => sessions[s].directory # sessions[t].directory
  /\ \A s \in Sessions :
       LeftLoop(s) =>
         \A d \in dirs : d.path = sessions[s].directory => d.maker = s
  /\ \A d \in dirs : d.writers \subseteq {d.maker}

\* C30: sessions opened with unique=True on one base directory each get a
\* run directory of their own, which did not exist before, and every
\* session that enters the loop around makedirs leaves it.
C30_UniqueDirectories ==
  /\ []DirectoriesDistinct
  /\ \A s \in Sessions :
       (sessions[s].pc = "makedirs") ~> LeftLoop(s)

\* every session is open, one of them after a makedirs call that failed
C30_Witness ==
  /\ \A s \in Sessions : sessions[s].pc = "open"
  /\ \E s \in Sessions : sessions[s].retried
  /\ Cardinality(dirs) = MaxSessions

\* ------------------------------------------------------------------ C31
\* C31: when meta.json is absent as the reader starts, every meta_ready
\* signal carries an empty mapping, no exception leaves start_reading, the
\* slot goes on to the polling loop, and the Experiment's meta stays empty.
C31_AbsentMetaIsEmpty ==
  (IsNone(meta_json) /\ spc # "start") =>
    /\ spc = "data"
    /\ meta_emitted # <<>>
    /\ \A k \in 1..Len(meta_emitted) : meta_emitted[k].payload = {}
    /\ exp_meta = {}
    /\ escaped = 0

\* no meta.json, and yet the rows of the run have reached the Experiment
C31_Witness ==
  /\ IsNone(meta_json)
  /\ spc = "data"
  /\ queue = <<>>
  /\ exp_meta = {}
  /\ num_rows >= 1
  /\ data # <<>> /\ Len(data[1]) >= 1

\* ------------------------------------------------------------------ C32
\* C32: whenever a visualization_ready signal is handled, the function bound
\* to its name has been executed on the arguments it carries and the plot
\* that results is what the panels show under that name, whether or not a
\* module is cached for the name.
C32_DeliveredIsRendered ==
  [][ Len(vis_ready') < Len(vis_ready) =>
        LET m == Head(vis_ready)
        IN panels'[m.name] =
             Some(<<[func |-> m.data.func, args |-> m.data.args,
                     folder |-> m.folder]>>) ]_vars

\* the same for the signals handled while no module is cached for the name
RenderedUnlessCached ==
  [][ ( /\ Len(vis_ready') < Len(vis_ready)
        /\ IsNone(modules[Head(vis_ready).name]) ) =>
        LET m == Head(vis_ready)
        IN panels'[m.name] =
             Some(<<[func |-> m.data.func, args |-> m.data.args,
                     folder |-> m.folder]>>) ]_vars

\* ------------------------------------------------------------------ C33
\* a step of VisualizationsLoader.poll, in a run of the loader alone
PollStep == selects' = selects /\ loaderVars' # loaderVars
\* the size on disk of the payload that a tick handled
SizeHandled(handled) ==
  Some(FileSize(Get(FolderFiles(handled.folder)[Get(handled.entry).name])))

\* C33: on every poll pass, a name whose payload has the size last recorded
\* for it is neither loaded nor delivered again (nothing is recorded, read or
\* signalled); a payload is loaded only if its name is new or its size has
\* changed since the size last recorded; and the source of a name is read
\* at most once per selection.
C33_SameSizeSkipped ==
  [][ (PollStep /\ ~IsNone(last_tick'.entry)) =>
        LET name == Get(last_tick'.entry).name
            known == loader.known_file_sizes[name]
        IN /\ SizeHandled(last_tick') = known
                => /\ last_tick'.result = "known"
                   /\ ready_count' = ready_count
                   /\ loader'.known_file_sizes = loader.known_file_sizes
                   /\ loader'.source_code = loader.source_code
                   /\ source_reads' = source_reads
           /\ last_tick'.result # "known" => SizeHandled(last_tick') # known
           /\ \A n \in VisNames : source_reads'[n] <= 1 ]_vars

\* a name loaded twice in one selection, its source read once, and then
\* passed over at its recorded size
C33_Witness ==
  /\ last_tick.result = "known"
  /\ IsNone(vis_files["B"])
  /\ ready_count >= 2
  /\ selects = 1
  /\ source_reads["A"] = 1

\* ------------------------------------------------------------------ C34
\* C34: after Visualizations.select of a run, every plot in the panels was
\* loaded from that run: a visualization_ready signal emitted for the run
\* selected before is never rendered once the selection has changed.
C34_PanelsOfSelectedRun ==
  \A n \in VisNames :
    ~IsNone(panels[n]) =>
      \A k \in 1..Len(Get(panels[n])) : Get(panels[n])[k].folder = selected

\* ------------------------------------------------------------------ C35
\* C35: while the selected run is in progress, a poll pass that takes a name
\* from the listing when the writer has finished its payload file leaves the
\* latest payload written under that name delivered, however many visualize
\* calls were made since the pass before and whatever their payload sizes.
C35_LatestPayloadDelivered ==
  [][ ( /\ PollStep
        /\ ~IsNone(last_tick'.entry)
        /\ IsNone(loader.retry_file)
        /\ last_tick'.folder = "run1"
        /\ ~loader.exp_done
        /\ vpc = "idle" ) =>
        LET name == Get(last_tick'.entry).name
        IN delivered'[name] = Some(Get(vis_files[name]).data) ]_vars

\* ------------------------------------------------------------------ C36
\* the rows that the metrics file holds: its terminated lines after the
\* header, without the completion marker
FlushedRows(content) ==
  IF LinesToKeep(content) = <<>> THEN <<>> ELSE Tail(LinesToKeep(content))

\* C36: no step of a session, of its crash, or of a constructor called with
\* resume=True on its log (whether it returns, raises or is followed by the
\* finalizer) removes a row that the metrics file holds.
C36_FlushedRowsStay ==
  [][IsPrefix(FlushedRows(disk), FlushedRows(disk'))]_vars

\* a session that crashed after flushing a row, and a constructor called with
\* resume=True on its log that is over: the row is in the file
C36_Witness ==
  /\ wpc = "crashed"
  /\ resume.pc = "deleted"
  /\ FlushedRows(resume.before) # <<>>
  /\ FlushedRows(disk) = FlushedRows(resume.before)

\* ------------------------------------------------------------------ C37
\* C37: an append call on an open session that raises a validation error
\* leaves the session as it was: the column list, the header-written flag,
\* the characters written to the file and the averaging accumulator.
C37_FailedAppendChangesNothing ==
  [][ (ncalls' = ncalls + 1 /\ wpc' = "idle" /\ ~closed) =>
        /\ stat_names' = stat_names
        /\ wrote_header' = wrote_header
        /\ buf' = buf /\ disk' = disk
        /\ avg' = avg ]_vars

\* ------------------------------------------------------------------ C38
\* C38: when read_lines has raised the error of a corrupt line, every row
\* that it parsed before that line, in this invocation or an earlier one,
\* has been handed to the consumer in a data_ready signal.
C38_RowsBeforeCorruptLineDelivered ==
  rpc = "error" => Len(emitted) = num_rows

\* ------------------------------------------------------------------ C39
\* the signals of a run in the order the Experiment handles them: those
\* handled, then those waiting in the queue
Handoffs == handed \o [k \in 1..Len(queue) |-> queue[k].type]

RECURSIVE QueuedRows(_)
\* the rows of the data_ready signals that wait in a queue
QueuedRows(q) ==
  IF q = <<>> THEN 0
  ELSE (IF Head(q).type = "data" THEN Len(Head(q).payload[1]) ELSE 0)
       + QueuedRows(Tail(q))

\* the rows handed to the Experiment so far
RowsHanded == Len(emitted) - QueuedRows(queue)

\* C40: in every state of an Experiment, data has one column for every
\* entry of metrics, every column has as many values as rows have been
\* handed over, and a step changes a column only by appending to it.
C40_ColumnsMatchMetrics ==
  /\ [](/\ Len(data) = Len(metrics)
        /\ \A i \in 1..Len(data) : Len(data[i]) = RowsHanded)
  /\ [][ /\ Len(data) <= Len(data')
         /\ \A i \in 1..Len(data) : IsPrefix(data[i], data'[i]) ]_vars

\* two batches of rows handed over, two columns of two values each
C40_Witness ==
  /\ Len(metrics) = 3
  /\ Len(data) = 3
  /\ handed = <<"header", "data", "data">>
  /\ \A i \in 1..3 : Len(data[i]) = 2

====
